---- MODULE Spec2Model ----
(***************************************************************************)
(* A model of the slice-wise lung segmentation training pipeline:          *)
(*   train_pipeline.py   get_train_valid_indices, train                    *)
(*   utils.py            get_scans_and_labels_batches                      *)
(*   losses.py           NegDiceLoss.forward, FocalLoss.forward            *)
(*   src/model/utils.py  hausdorff_distance, average_hausdorff_distance,   *)
(*                       evaluate_net                                      *)
(*                                                                         *)
(* Numbers.  Losses are floats in the program.  Here a validation or       *)
(* training loss is an integer count of units of 1e-4, the early-stopping  *)
(* tolerance, so that es_tolerance is 1 and "lower by more than the        *)
(* tolerance" is an integer comparison.  A mean is kept as the pair        *)
(* [num, den] it is computed from.  Network parameters are abstracted to   *)
(* the number of optimizer steps that produced them: two states of the     *)
(* network are equal iff the same number of steps has been applied.        *)
(***************************************************************************)
EXTENDS Integers, Sequences, FiniteSets, TLC

VARIABLES
    \* ---- train() -------------------------------------------------------
    run,              \* the arguments of this call and what the data allow
    pc,               \* position in train()
    cur_epoch,        \* loop variable of "for cur_epoch in range(1, n_epochs + 1)"
    es_cnt,           \* epochs since the last improvement
    best_loss_valid,
    best_epoch_ix,
    best_net_wts,     \* copy.deepcopy(net.state_dict()) at the best epoch
    net_wts,          \* net.state_dict()
    em,               \* epoch metrics
    indices_train,    \* the caller's list, shuffled in place
    train_pos,        \* batches of the current train phase already delivered
    delivered,        \* scans_ix of each of them, in order
    indices_valid,    \* the caller's validation list
    last_out,         \* min, max of the last batch's output: whether min < 0, whether max > 1
    pbar_n,           \* pbar_t.n: the items the progress bar of the train phase has counted
    ckpt_dir,         \* checkpoints_dp on disk
    em_dumps,         \* what has been pickled to results/<loss>_epoch_metrics.pickle
    err,              \* the exception train() ended with, or "none"
    \* ---- get_train_valid_indices() ---------------------------------------
    ix_in,            \* the arguments and the directories they name
    ix_pc,            \* position in get_train_valid_indices()
    z_pickle,         \* <scans_dp>/../scans_z.pickle: "missing" or a mapping
    scans_z,          \* volume -> number of slices
    fns_train,
    fns_valid,
    split_files,      \* results/<loss>_filenames_{train,valid}.txt: "none" or their lines
    ix_out,           \* the returned (indices_train, indices_valid), or "none"
    ix_err,           \* the exception it ended with, or "none"
    \* ---- get_scans_and_labels_batches() ----------------------------------
    gen_in,           \* the index list as passed, and batch_size
    g_indices,        \* the caller's list object, which every generator reads
    gens,             \* the generators built over it: flag, position, what each yielded
    \* ---- NegDiceLoss / FocalLoss ----------------------------------------
    loss_obj,         \* the loss module: its class and, for FocalLoss, its reduction
    loss_args,        \* input and target of the current forward() call
    loss_res,         \* what the call did: pending, returned a value, or raised
    loss_seen,        \* per kind of bad call, the exception the caller has seen so far
    \* ---- hausdorff_distance / average_hausdorff_distance ----------------
    hd_fn,            \* which of the two functions is called
    hd_args,          \* input_bin, target and max_ahd of the call
    hd_res,           \* pending, or the value returned
    \* ---- evaluate_net() --------------------------------------------------
    ev_in,            \* what data_gen will deliver, and total_samples_cnt
    ev_pc,            \* position in evaluate_net()
    ev_pos,           \* elements of data_gen consumed so far
    metrics_res,      \* metric -> its 'list' and its 'mean'
    ev_net_wts,       \* the parameters of net
    ev_err            \* the exception it ended with, or "none"

trainVars == <<run, pc, cur_epoch, es_cnt, best_loss_valid, best_epoch_ix,
               best_net_wts, net_wts, em, indices_train, train_pos, delivered,
               indices_valid, last_out, pbar_n, ckpt_dir, em_dumps, err>>

ixVars == <<ix_in, ix_pc, z_pickle, scans_z, fns_train, fns_valid, split_files,
            ix_out, ix_err>>

genVars == <<gen_in, g_indices, gens>>

lossVars == <<loss_obj, loss_args, loss_res, loss_seen>>

hdVars == <<hd_fn, hd_args, hd_res>>

evVars == <<ev_in, ev_pc, ev_pos, metrics_res, ev_net_wts, ev_err>>

vars == <<trainVars, ixVars, genVars, lossVars, hdVars, evVars>>

\* what an operation of one component leaves alone
otherThanTrain == <<ixVars, genVars, lossVars, hdVars, evVars>>
otherThanIx == <<trainVars, genVars, lossVars, hdVars, evVars>>
otherThanGen == <<trainVars, ixVars, lossVars, hdVars, evVars>>
otherThanLoss == <<trainVars, ixVars, genVars, hdVars, evVars>>
otherThanHd == <<trainVars, ixVars, genVars, lossVars, evVars>>
otherThanEv == <<trainVars, ixVars, genVars, lossVars, hdVars>>

\* ------------------------------------------------------------------------
\* Bounds of the model
\* ------------------------------------------------------------------------
MaxEpochs == 13
MaxEpochsDetail == 2
MaxTrain == 2
MaxVols == 3
MaxLen == 3
MaxBatch == 2
MaxPixels == 2
MaxSide == 2
MaxWidth == 2
MaxItems == 2

\* ------------------------------------------------------------------------
\* Program constants
\* ------------------------------------------------------------------------
\* es_tolerance = 0.0001, in units of 1e-4
es_tolerance == 1
es_patience == 10
\* best_loss_valid = 1e+30: above every loss a run can record, within TLC's integers
BEST_LOSS_INIT == 1000000000
\* self.eps = 1e-6 of NegDiceLoss, as its reciprocal: eps = 1 / EpsInv
EpsInv == 1000000

Metrics == {"BCELoss", "NegDiceLoss", "FocalLoss"}
loss_name == "NegDiceLoss"

Last(s) == s[Len(s)]
SetLast(s, v) == [s EXCEPT ![Len(s)] = v]

RECURSIVE Perms(_)
Perms(S) ==
    IF S = {} THEN {<<>>}
    ELSE UNION {{<<x>> \o p : p \in Perms(S \ {x})} : x \in S}

Range(s) == {s[i] : i \in 1..Len(s)}

\* ------------------------------------------------------------------------
\* train(): the calls the model explores
\* ------------------------------------------------------------------------
\* A long run: many epochs, a network whose output always lies in [0,1].  Its
\* validation means are 0 and 2, or 1 and 2, or in every epoch a value that is
\* not below 1e+30 (inf): BEST_LOSS_INIT.
LongRuns ==
    [n_epochs : 0..MaxEpochs, valid_vals : {{0, 2}, {1, 2}, {BEST_LOSS_INIT}},
     train_vals : {{0}},
     other_vals : {{0}}, out_of_range : {FALSE}, n_src : {1},
     source_slices_per_batch : {1}, aug_cnt : {1}, n_valid : {1}]

\* A short run in detail: skipped batches, several batches, empty index lists.
DetailRuns ==
    [n_epochs : 0..MaxEpochsDetail, valid_vals : {{0, 1, 2}}, train_vals : {{0, 1}},
     other_vals : {{0}}, out_of_range : {TRUE}, n_src : 0..MaxTrain,
     source_slices_per_batch : {1, 2}, aug_cnt : {0, 1}, n_valid : {0, 1}]

Runs == LongRuns \cup DetailRuns

CkptFile(kind, n, wts) == [kind |-> kind, n |-> n, wts |-> wts]

\* what checkpoints_dp may hold when train() is called
StaleDirs ==
    { [exists |-> FALSE, files |-> {}],
      [exists |-> TRUE, files |-> {}],
      [exists |-> TRUE, files |-> {CkptFile("epoch", MaxEpochs + 1, 77), CkptFile("best", 0, 77)}] }

n_train == Len(indices_train) * (1 + run.aug_cnt)

\* the batches of full size only
NBatchesWithoutPartial == Len(indices_train) \div run.source_slices_per_batch

\* number of batches the train generator yields over indices_train
NBatches ==
    (Len(indices_train) + run.source_slices_per_batch - 1) \div run.source_slices_per_batch

\* the source slices of batch k (1-based) and the number of items it holds
BatchSources(k) ==
    SubSeq(indices_train, (k - 1) * run.source_slices_per_batch + 1,
           IF k * run.source_slices_per_batch < Len(indices_train)
           THEN k * run.source_slices_per_batch ELSE Len(indices_train))
BatchLen(k) == Len(BatchSources(k)) * (1 + run.aug_cnt)

\* what torch.min(out), torch.max(out) say of a batch's output
Outputs == [below : BOOLEAN, above : BOOLEAN]
InRange == [below |-> FALSE, above |-> FALSE]
\* no batch has been through the network
NoOutput == InRange

TrainInit ==
    /\ run \in Runs
    /\ pc = "called"
    /\ cur_epoch = 0
    /\ es_cnt = 0
    /\ best_loss_valid = 0
    /\ best_epoch_ix = 0
    /\ best_net_wts = 0
    /\ net_wts = 0
    /\ em = [series |-> [m \in Metrics |-> [train |-> <<>>, valid |-> <<>>]],
             loss_name |-> ""]
    /\ indices_train = [i \in 1..run.n_src |-> i]
    /\ train_pos = 0
    /\ delivered = <<>>
    /\ indices_valid = [i \in 1..run.n_valid |-> i]
    /\ last_out = NoOutput
    /\ pbar_n = 0
    /\ ckpt_dir \in StaleDirs
    /\ em_dumps = <<>>
    /\ err = "none"

\* lines 83-104: fresh checkpoint directory, early-stopping variables, empty em
SetupKeepsOldDir ==
    /\ pc = "called"
    /\ ckpt_dir' = [exists |-> TRUE, files |-> ckpt_dir.files]
    /\ es_cnt' = 0
    /\ em' = [series |-> [m \in Metrics |-> [train |-> <<>>, valid |-> <<>>]],
              loss_name |-> loss_name]
    /\ best_loss_valid' = BEST_LOSS_INIT
    /\ best_epoch_ix' = 0
    /\ best_net_wts' = net_wts
    /\ pc' = "epoch_loop"
    /\ UNCHANGED <<run, indices_valid, delivered, last_out, pbar_n, cur_epoch, net_wts, indices_train, train_pos, em_dumps, err>>
    /\ UNCHANGED otherThanTrain

Setup ==
    /\ pc = "called"
    /\ ckpt_dir' = [exists |-> TRUE, files |-> {}]
    /\ es_cnt' = 0
    /\ em' = [series |-> [m \in Metrics |-> [train |-> <<>>, valid |-> <<>>]],
              loss_name |-> loss_name]
    /\ best_loss_valid' = BEST_LOSS_INIT
    /\ best_epoch_ix' = 0
    /\ best_net_wts' = net_wts
    /\ pc' = "epoch_loop"
    /\ UNCHANGED <<run, indices_valid, delivered, last_out, pbar_n, cur_epoch, net_wts, indices_train, train_pos, em_dumps, err>>
    /\ UNCHANGED otherThanTrain

\* lines 126-137: next epoch; the shuffled generator; a 0 appended to every train series.
\* train() passes aug_cnt to the generator; get_scans_and_labels_batches of utils.py
\* takes none, so the batches are those of utils.py with every source slice
\* standing for 1 + aug_cnt items (BatchLen)
TrainBegin ==
    /\ pc = "epoch_loop"
    /\ cur_epoch < run.n_epochs
    /\ cur_epoch' = cur_epoch + 1
    /\ indices_train' \in Perms(Range(indices_train))
    /\ delivered' = <<>>
    /\ train_pos' = 0
    /\ pbar_n' = 0
    /\ em' = [em EXCEPT !.series =
                [m \in Metrics |->
                    [em.series[m] EXCEPT !.train = Append(@, [num |-> 0, den |-> 1])]]]
    /\ pc' = "train"
    /\ UNCHANGED <<run, indices_valid, last_out, es_cnt, best_loss_valid, best_epoch_ix, best_net_wts, net_wts,
                   ckpt_dir, em_dumps, err>>
    /\ UNCHANGED otherThanTrain

\* line 126: range(1, n_epochs + 1) is exhausted
LoopExhaustedOneShort ==
    /\ pc = "epoch_loop"
    /\ cur_epoch >= run.n_epochs - 1
    /\ pc' = "save_metrics"
    /\ UNCHANGED <<run, indices_valid, delivered, last_out, pbar_n, cur_epoch, es_cnt, best_loss_valid, best_epoch_ix,
                   best_net_wts, net_wts, em, indices_train, train_pos, ckpt_dir,
                   em_dumps, err>>
    /\ UNCHANGED otherThanTrain

LoopExhausted ==
    /\ pc = "epoch_loop"
    /\ cur_epoch >= run.n_epochs
    /\ pc' = "save_metrics"
    /\ UNCHANGED <<run, indices_valid, delivered, last_out, pbar_n, cur_epoch, es_cnt, best_loss_valid, best_epoch_ix, best_net_wts,
                   net_wts, em, indices_train, train_pos, ckpt_dir, em_dumps, err>>
    /\ UNCHANGED otherThanTrain

\* line 148: min < 0 or max > 1
OutOfRangeBelowOnly(o) == o.below
OutOfRange(o) == o.below \/ o.above

\* lines 141-150: a batch whose output leaves [0,1] is skipped
TrainBatchSkipped ==
    /\ pc = "train"
    /\ train_pos < NBatches
    /\ run.out_of_range
    /\ \E o \in Outputs : OutOfRange(o) /\ last_out' = o
    /\ delivered' = Append(delivered, BatchSources(train_pos + 1))
    /\ train_pos' = train_pos + 1
    /\ UNCHANGED <<run, indices_valid, pbar_n, pc, cur_epoch, es_cnt, best_loss_valid, best_epoch_ix,
                   best_net_wts, net_wts, em, indices_train, ckpt_dir, em_dumps, err>>
    /\ UNCHANGED otherThanTrain

\* lines 141-168: loss, backward, optimizer step, running sums
TrainBatchStep ==
    /\ pc = "train"
    /\ train_pos < NBatches
    /\ \E o \in (IF run.out_of_range THEN Outputs ELSE {InRange}) :
          ~OutOfRange(o) /\ last_out' = o
    /\ pbar_n' = pbar_n + BatchLen(train_pos + 1)
    /\ \E v \in run.train_vals, w \in [Metrics \ {loss_name} -> run.other_vals] :
          em' = [em EXCEPT !.series =
                   [m \in Metrics |->
                      [em.series[m] EXCEPT !.train =
                          SetLast(@, [num |-> Last(@).num
                                              + (IF m = loss_name THEN v ELSE w[m])
                                                * BatchLen(train_pos + 1),
                                      den |-> 1])]]]
    /\ net_wts' = net_wts + 1
    /\ delivered' = Append(delivered, BatchSources(train_pos + 1))
    /\ train_pos' = train_pos + 1
    /\ UNCHANGED <<run, indices_valid, pc, cur_epoch, es_cnt, best_loss_valid, best_epoch_ix,
                   best_net_wts, indices_train, ckpt_dir, em_dumps, err>>
    /\ UNCHANGED otherThanTrain

\* lines 170-173: every running sum divided by n_train; min and max of the last
\* batch are not read again
TrainEnd ==
    /\ pc = "train"
    /\ train_pos >= NBatches
    /\ n_train # 0
    /\ em' = [em EXCEPT !.series =
                [m \in Metrics |->
                    [em.series[m] EXCEPT !.train =
                        SetLast(@, [num |-> Last(@).num, den |-> n_train])]]]
    /\ pc' = "checkpoint"
    /\ last_out' = NoOutput
    /\ UNCHANGED <<run, indices_valid, delivered, pbar_n, cur_epoch, es_cnt, best_loss_valid, best_epoch_ix, best_net_wts,
                   net_wts, indices_train, train_pos, ckpt_dir, em_dumps, err>>
    /\ UNCHANGED otherThanTrain

\* line 172 with n_train = 0: 0 / 0
TrainEndZeroDivision ==
    /\ pc = "train"
    /\ train_pos >= NBatches
    /\ n_train = 0
    /\ pc' = "raised"
    /\ err' = "ZeroDivisionError"
    /\ last_out' = NoOutput
    /\ UNCHANGED <<run, indices_valid, delivered, pbar_n, cur_epoch, es_cnt, best_loss_valid, best_epoch_ix, best_net_wts,
                   net_wts, em, indices_train, train_pos, ckpt_dir, em_dumps>>
    /\ UNCHANGED otherThanTrain

\* torch.save(state, os.path.join(checkpoints_dp, name)): the file is created or replaced
SaveCheckpoint(dir, kind, n, wts) ==
    [dir EXCEPT !.files = {f \in @ : ~(f.kind = kind /\ f.n = n)} \cup {CkptFile(kind, n, wts)}]

\* lines 175-179: the epoch's checkpoint, whatever the validation loss will be
CheckpointNotWritten ==
    /\ pc = "checkpoint"
    /\ pc' = "validation"
    /\ UNCHANGED <<run, indices_valid, delivered, last_out, pbar_n, cur_epoch, es_cnt, best_loss_valid, best_epoch_ix,
                   best_net_wts, net_wts, em, indices_train, train_pos, ckpt_dir,
                   em_dumps, err>>
    /\ UNCHANGED otherThanTrain

Checkpoint ==
    /\ pc = "checkpoint"
    /\ ckpt_dir' = SaveCheckpoint(ckpt_dir, "epoch", cur_epoch, net_wts)
    /\ pc' = "validation"
    /\ UNCHANGED <<run, indices_valid, delivered, last_out, pbar_n, cur_epoch, es_cnt, best_loss_valid, best_epoch_ix, best_net_wts,
                   net_wts, em, indices_train, train_pos, em_dumps, err>>
    /\ UNCHANGED otherThanTrain

\* lines 181-188: evaluate_net over indices_valid; every mean appended to its valid series
Validate ==
    /\ pc = "validation"
    /\ run.n_valid # 0
    /\ \E v \in run.valid_vals, w \in [Metrics \ {loss_name} -> run.other_vals] :
          em' = [em EXCEPT !.series =
                   [m \in Metrics |->
                      [em.series[m] EXCEPT !.valid =
                          Append(@, IF m = loss_name THEN v ELSE w[m])]]]
    /\ pc' = "early_stopping"
    /\ UNCHANGED <<run, indices_valid, delivered, last_out, pbar_n, cur_epoch, es_cnt, best_loss_valid, best_epoch_ix, best_net_wts,
                   net_wts, indices_train, train_pos, ckpt_dir, em_dumps, err>>
    /\ UNCHANGED otherThanTrain

\* evaluate_net line 54 with total_samples_cnt = 0: 0 / 0
ValidateZeroDivision ==
    /\ pc = "validation"
    /\ run.n_valid = 0
    /\ pc' = "raised"
    /\ err' = "ZeroDivisionError"
    /\ UNCHANGED <<run, indices_valid, delivered, last_out, pbar_n, cur_epoch, es_cnt, best_loss_valid, best_epoch_ix, best_net_wts,
                   net_wts, em, indices_train, train_pos, ckpt_dir, em_dumps>>
    /\ UNCHANGED otherThanTrain

\* line 194
IsImprovementWithoutTolerance(v, best) == v < best
IsImprovement(v, best) == v < best - es_tolerance

\* line 203
PatienceExhaustedLate(cnt) == cnt > es_patience
PatienceExhausted(cnt) == cnt >= es_patience

\* lines 193-206: the early-stopping decision and the break
EarlyStoppingSnapshotEveryEpoch ==
    /\ pc = "early_stopping"
    /\ LET v == Last(em.series[loss_name].valid)
           improved == IsImprovement(v, best_loss_valid)
           cnt == IF improved THEN 0 ELSE es_cnt + 1
       IN  /\ best_loss_valid' = IF improved THEN v ELSE best_loss_valid
           /\ best_net_wts' = net_wts
           /\ best_epoch_ix' = IF improved THEN cur_epoch ELSE best_epoch_ix
           /\ es_cnt' = cnt
           /\ pc' = IF PatienceExhausted(cnt) THEN "save_metrics" ELSE "epoch_loop"
    /\ UNCHANGED <<run, indices_valid, delivered, last_out, pbar_n, cur_epoch, net_wts, em, indices_train, train_pos,
                   ckpt_dir, em_dumps, err>>
    /\ UNCHANGED otherThanTrain

\* the counter goes on counting through an improvement
EarlyStoppingCounterNotReset ==
    /\ pc = "early_stopping"
    /\ LET v == Last(em.series[loss_name].valid)
           improved == IsImprovement(v, best_loss_valid)
           cnt == es_cnt + 1
       IN  /\ best_loss_valid' = IF improved THEN v ELSE best_loss_valid
           /\ best_net_wts' = IF improved THEN net_wts ELSE best_net_wts
           /\ best_epoch_ix' = IF improved THEN cur_epoch ELSE best_epoch_ix
           /\ es_cnt' = cnt
           /\ pc' = IF PatienceExhausted(cnt) THEN "save_metrics" ELSE "epoch_loop"
    /\ UNCHANGED <<run, indices_valid, delivered, last_out, pbar_n, cur_epoch, net_wts, em, indices_train, train_pos,
                   ckpt_dir, em_dumps, err>>
    /\ UNCHANGED otherThanTrain

\* the best loss is the loss of the best epoch or, without one, of the last
EarlyStoppingBestIsLast ==
    /\ pc = "early_stopping"
    /\ LET v == Last(em.series[loss_name].valid)
           improved == IsImprovement(v, best_loss_valid)
           cnt == IF improved THEN 0 ELSE es_cnt + 1
       IN  /\ best_loss_valid' = v
           /\ best_net_wts' = IF improved THEN net_wts ELSE best_net_wts
           /\ best_epoch_ix' = IF improved THEN cur_epoch ELSE best_epoch_ix
           /\ es_cnt' = cnt
           /\ pc' = IF PatienceExhausted(cnt) THEN "save_metrics" ELSE "epoch_loop"
    /\ UNCHANGED <<run, indices_valid, delivered, last_out, pbar_n, cur_epoch, net_wts, em, indices_train, train_pos,
                   ckpt_dir, em_dumps, err>>
    /\ UNCHANGED otherThanTrain

EarlyStopping ==
    /\ pc = "early_stopping"
    /\ LET v == Last(em.series[loss_name].valid)
           improved == IsImprovement(v, best_loss_valid)
           cnt == IF improved THEN 0 ELSE es_cnt + 1
       IN  /\ best_loss_valid' = IF improved THEN v ELSE best_loss_valid
           /\ best_net_wts' = IF improved THEN net_wts ELSE best_net_wts
           /\ best_epoch_ix' = IF improved THEN cur_epoch ELSE best_epoch_ix
           /\ es_cnt' = cnt
           /\ pc' = IF PatienceExhausted(cnt) THEN "save_metrics" ELSE "epoch_loop"
    /\ UNCHANGED <<run, indices_valid, delivered, last_out, pbar_n, cur_epoch, net_wts, em, indices_train, train_pos, ckpt_dir,
                   em_dumps, err>>
    /\ UNCHANGED otherThanTrain

\* lines 208-213: pickle.dump(em, fout)
SaveMetricsNoDump ==
    /\ pc = "save_metrics"
    /\ pc' = "load_best"
    /\ UNCHANGED <<run, indices_valid, delivered, last_out, pbar_n, cur_epoch, es_cnt, best_loss_valid, best_epoch_ix, best_net_wts,
                   net_wts, em, indices_train, train_pos, ckpt_dir, em_dumps, err>>
    /\ UNCHANGED otherThanTrain

SaveMetrics ==
    /\ pc = "save_metrics"
    /\ em_dumps' = Append(em_dumps, em)
    /\ pc' = "load_best"
    /\ UNCHANGED <<run, indices_valid, delivered, last_out, pbar_n, cur_epoch, es_cnt, best_loss_valid, best_epoch_ix, best_net_wts,
                   net_wts, em, indices_train, train_pos, ckpt_dir, err>>
    /\ UNCHANGED otherThanTrain

\* lines 215-228: the best parameters loaded back and saved as "best"; return em
LoadBestKeepsLast ==
    /\ pc = "load_best"
    /\ ckpt_dir' = SaveCheckpoint(ckpt_dir, "best", 0, net_wts)
    /\ pc' = "done"
    /\ UNCHANGED <<run, indices_valid, delivered, last_out, pbar_n, cur_epoch, es_cnt, best_loss_valid, best_epoch_ix, best_net_wts,
                   net_wts, em, indices_train, train_pos, em_dumps, err>>
    /\ UNCHANGED otherThanTrain

\* the best parameters are loaded back only when some epoch has improved
LoadBestOnlyIfImproved ==
    /\ pc = "load_best"
    /\ net_wts' = IF best_epoch_ix = 0 THEN net_wts ELSE best_net_wts
    /\ ckpt_dir' = SaveCheckpoint(ckpt_dir, "best", 0, net_wts')
    /\ pc' = "done"
    /\ UNCHANGED <<run, indices_valid, delivered, last_out, pbar_n, cur_epoch, es_cnt, best_loss_valid, best_epoch_ix, best_net_wts,
                   em, indices_train, train_pos, em_dumps, err>>
    /\ UNCHANGED otherThanTrain

LoadBest ==
    /\ pc = "load_best"
    /\ net_wts' = best_net_wts
    /\ ckpt_dir' = SaveCheckpoint(ckpt_dir, "best", 0, best_net_wts)
    /\ pc' = "done"
    /\ UNCHANGED <<run, indices_valid, delivered, last_out, pbar_n, cur_epoch, es_cnt, best_loss_valid, best_epoch_ix, best_net_wts,
                   em, indices_train, train_pos, em_dumps, err>>
    /\ UNCHANGED otherThanTrain

\* ------------------------------------------------------------------------
\* Claims about train()
\* ------------------------------------------------------------------------
\* the recorded validation means of the designated loss, one per validated epoch
ValidSeries == em.series[loss_name].valid

\* the best-seen value after the first k recorded epochs, by the rule of the claims:
\* a mean counts when it is lower than the best before it by more than the tolerance
RECURSIVE BestSeen(_, _)
BestSeen(V, k) ==
    IF k = 0 THEN BEST_LOSS_INIT
    ELSE LET before == BestSeen(V, k - 1)
         IN  IF V[k] < before - es_tolerance THEN V[k] ELSE before

Improves(V, k) == V[k] < BestSeen(V, k - 1) - es_tolerance

\* the last epoch among the first k that improved, 0 when none did
RECURSIVE LastImproving(_, _)
LastImproving(V, k) ==
    IF k = 0 THEN 0 ELSE IF Improves(V, k) THEN k ELSE LastImproving(V, k - 1)

\* epochs e - es_patience + 1 .. e all failed to improve: epoch e - es_patience is the best
StalledAt(V, e) ==
    /\ e >= es_patience
    /\ e <= Len(V)
    /\ \A j \in (e - es_patience + 1)..e : ~Improves(V, j)

\* the parameters saved by the checkpoint phase of epoch e
EpochSnapshots(e) == {f.wts : f \in {g \in ckpt_dir.files : g.kind = "epoch" /\ g.n = e}}
BestFiles == {f \in ckpt_dir.files : f.kind = "best"}

\* C1: once the designated loss's validation mean has failed to improve on the
\* best-seen value by more than the tolerance for es_patience consecutive epochs
\* ending with epoch e = best epoch + es_patience, no phase of a later epoch runs
\* and no later mean is recorded: the loop ends right after epoch e, whatever
\* n_epochs is.
C1_EarlyStoppingFires ==
    \A e \in 1..Len(ValidSeries) :
        StalledAt(ValidSeries, e) =>
            /\ e = LastImproving(ValidSeries, e) + es_patience
            /\ Len(ValidSeries) = e
            /\ cur_epoch = e
            /\ pc \in {"early_stopping", "save_metrics", "load_best", "done"}

\* C1 witness: a run that returned after early stopping at epoch best + patience,
\* with the best epoch not the first and epochs of the budget left unrun
C1_Witness ==
    /\ pc = "done"
    /\ StalledAt(ValidSeries, Len(ValidSeries))
    /\ best_epoch_ix >= 2
    /\ cur_epoch = best_epoch_ix + es_patience
    /\ cur_epoch < run.n_epochs

\* the epochs whose recorded validation mean is the lowest of the run
LowestEpochs(V) == {e \in 1..Len(V) : \A j \in 1..Len(V) : V[e] <= V[j]}

\* C2 as stated: when train() returns after at least one epoch, the network's
\* parameters and the "best" checkpoint are the snapshot of an epoch with the
\* lowest recorded validation mean.
C2_Original ==
    (pc = "done" /\ Len(ValidSeries) > 0) =>
        \E e \in LowestEpochs(ValidSeries) :
            /\ net_wts \in EpochSnapshots(e)
            /\ \A f \in BestFiles : f.wts \in EpochSnapshots(e)

\* C2 amended: when train() returns, the network's parameters and the one "best"
\* checkpoint are the snapshot of the last epoch whose validation mean was lower
\* than the best value before it by more than es_tolerance (the parameters at the
\* call when no epoch was); no recorded mean is lower than that epoch's by more
\* than es_tolerance.
C2_BestWeightsRestored ==
    pc = "done" =>
        LET b == LastImproving(ValidSeries, Len(ValidSeries)) IN
        /\ b = best_epoch_ix
        /\ IF b = 0 THEN net_wts = 0 ELSE EpochSnapshots(b) = {net_wts}
        /\ Cardinality(BestFiles) = 1
        /\ \A f \in BestFiles : f.wts = net_wts
        /\ b > 0 => \A j \in 1..Len(ValidSeries) :
                        ValidSeries[j] >= ValidSeries[b] - es_tolerance

\* C2 witness: a returned run whose restored epoch is neither the last epoch nor
\* an epoch of lowest validation mean
C2_Witness ==
    /\ pc = "done"
    /\ best_epoch_ix >= 1
    /\ best_epoch_ix < cur_epoch
    /\ best_epoch_ix \notin LowestEpochs(ValidSeries)
    /\ EpochSnapshots(cur_epoch) # {net_wts}

\* C3: when train() returns after E executed epochs, the checkpoint directory
\* holds one checkpoint for each epoch 1..E, one "best" checkpoint and nothing
\* else, and every metric's train and valid series has length E.
C3_ArtifactCounts ==
    pc = "done" =>
        /\ {f.kind : f \in ckpt_dir.files} \subseteq {"epoch", "best"}
        /\ {f.n : f \in {g \in ckpt_dir.files : g.kind = "epoch"}} = 1..cur_epoch
        /\ Cardinality({f \in ckpt_dir.files : f.kind = "epoch"}) = cur_epoch
        /\ Cardinality(BestFiles) = 1
        /\ \A m \in Metrics :
              /\ Len(em.series[m].train) = cur_epoch
              /\ Len(em.series[m].valid) = cur_epoch

\* C3 witness: a return after two epochs of several batches, with two epoch
\* checkpoints and the "best" one on disk
C3_Witness ==
    /\ pc = "done"
    /\ cur_epoch = 2
    /\ Cardinality(ckpt_dir.files) = 3
    /\ run.n_src > 1

\* C9: the epoch metrics are pickled exactly once in a run that leaves the epoch
\* loop, after the last executed epoch's early-stopping decision and never inside
\* the loop: nothing is dumped up to and including the loop's exit, and from then
\* on the one dump holds every series in full and the designated loss's name.
C9_MetricsDumpedOnce ==
    /\ pc \in {"called", "epoch_loop", "train", "checkpoint", "validation",
               "early_stopping", "save_metrics", "raised"} => em_dumps = <<>>
    /\ pc \in {"load_best", "done"} =>
          /\ em_dumps = <<em>>
          /\ em.loss_name = loss_name
          /\ \A m \in Metrics : Len(em.series[m].valid) = cur_epoch
          /\ (cur_epoch = run.n_epochs \/ PatienceExhausted(es_cnt))

\* C9 witness: the dump of a run that stopped early
C9_Witness ==
    /\ pc = "done"
    /\ Len(em_dumps) = 1
    /\ cur_epoch < run.n_epochs
    /\ Len(em_dumps[1].series[loss_name].valid) = cur_epoch

\* C11: a step of the train phase that takes a batch whose output has a value
\* below 0 or above 1 leaves the network parameters (no optimizer step), every
\* metric's running sum and series, the progress count and the early-stopping
\* variables as they were, and stays in the train phase of the same epoch with
\* the next batch up.
C11_SanityGateFrame ==
    [][(pc = "train" /\ train_pos' # train_pos /\ (last_out'.below \/ last_out'.above))
          => /\ net_wts' = net_wts
             /\ em' = em
             /\ pbar_n' = pbar_n
             /\ <<es_cnt, best_loss_valid, best_epoch_ix, best_net_wts>>'
                    = <<es_cnt, best_loss_valid, best_epoch_ix, best_net_wts>>
             /\ ckpt_dir' = ckpt_dir
             /\ pc' = "train"
             /\ cur_epoch' = cur_epoch
             /\ train_pos' = train_pos + 1]_vars

\* C11 witness: the second batch of an epoch was skipped for an output above 1,
\* after the first had been trained on, and the train phase goes on
C11_Witness ==
    /\ pc = "train"
    /\ train_pos = 2
    /\ last_out.above /\ ~last_out.below
    /\ net_wts = 1
    /\ pbar_n > 0

\* C12 as stated: when a train phase has ended, every metric's training mean of
\* the epoch is its running sum divided by the number of items processed in
\* the phase (those of the batches that were not skipped), whenever any were.
C12_Original ==
    (pc = "checkpoint" /\ pbar_n > 0) =>
        \A m \in Metrics :
            Last(em.series[m].train).num * pbar_n
                = Last(em.series[m].train).num * Last(em.series[m].train).den

\* the epochs that have a checkpoint on disk
CheckpointedEpochs == {f.n : f \in {g \in ckpt_dir.files : g.kind = "epoch"}}

\* C13: when the validation phase of an epoch starts, the checkpoint of that
\* epoch is on disk and holds the parameters as the train phase left them;
\* during the loop there is one checkpoint for each epoch whose train phase has
\* completed, improving or not, and none for any other; and a checkpoint once
\* written is neither removed nor replaced.
C13_PerEpochCheckpoint ==
    /\ [](/\ pc \in {"validation", "early_stopping", "epoch_loop"} /\ cur_epoch >= 1
              => EpochSnapshots(cur_epoch) = {net_wts}
          /\ pc \in {"validation", "early_stopping", "epoch_loop", "save_metrics",
                     "load_best", "done"}
              => CheckpointedEpochs = 1..cur_epoch
          /\ pc \in {"train", "checkpoint"} => CheckpointedEpochs = 1..(cur_epoch - 1))
    /\ [][pc # "called" => \A f \in ckpt_dir.files : f.kind = "epoch" => f \in ckpt_dir'.files]_vars

\* C13 witness: the second epoch did not improve on the first, and its checkpoint
\* is on disk with the parameters of the end of its train phase, which differ
\* from those of the first epoch
C13_Witness ==
    /\ pc = "epoch_loop"
    /\ cur_epoch = 2
    /\ best_epoch_ix = 1
    /\ EpochSnapshots(2) = {net_wts}
    /\ EpochSnapshots(1) # {net_wts}

\* C14 as stated: after an epoch's early-stopping decision, once some epoch has
\* improved, a "best" checkpoint is on disk and holds the parameters of the
\* best epoch so far.
C14_Original ==
    (pc = "epoch_loop" /\ best_epoch_ix >= 1) =>
        \E f \in BestFiles : f.wts \in EpochSnapshots(best_epoch_ix)

\* C14: an epoch whose validation mean is lower than the best-seen value by more
\* than the tolerance replaces the snapshot best_net_wts kept in memory, so that
\* after every epoch's early-stopping decision best_net_wts holds the
\* parameters of the last epoch that improved; no "best" checkpoint is on disk
\* while the loop runs, and the one "best" checkpoint is written after the loop,
\* from that snapshot.
C14_BestSnapshotInMemory ==
    /\ pc \in {"epoch_loop", "train", "checkpoint", "validation", "early_stopping",
               "save_metrics", "load_best"} => BestFiles = {}
    /\ pc \in {"epoch_loop", "train", "checkpoint", "validation", "save_metrics",
               "load_best", "done"} =>
          /\ best_epoch_ix = LastImproving(ValidSeries, Len(ValidSeries))
          /\ best_epoch_ix >= 1 => EpochSnapshots(best_epoch_ix) = {best_net_wts}
          /\ best_epoch_ix = 0 => best_net_wts = 0
    /\ pc = "done" => BestFiles = {CkptFile("best", 0, best_net_wts)}

\* C14 witness: the loop goes on after a second improving epoch and a third,
\* not improving one; the snapshot is that of epoch 2 and nothing "best" is on disk
C14_Witness ==
    /\ pc = "epoch_loop"
    /\ cur_epoch = 3
    /\ best_epoch_ix = 2
    /\ EpochSnapshots(2) = {best_net_wts}
    /\ best_net_wts # net_wts
    /\ BestFiles = {}

\* C15: when the epoch loop has been left before epoch n_epochs, the
\* no-improvement counter has reached es_patience and the last epoch's train,
\* checkpoint and validation phases are complete; the loop is left only from
\* the early-stopping test of an epoch or when the epochs are used up; the
\* counter changes only in that test, which follows the epoch's validation;
\* and a train phase ends only when every batch has been taken.
C15_OnlyEarlyExit ==
    /\ []((pc \in {"save_metrics", "load_best", "done"} /\ cur_epoch < run.n_epochs)
            => /\ es_cnt >= es_patience
               /\ cur_epoch \in CheckpointedEpochs
               /\ \A m \in Metrics : /\ Len(em.series[m].train) = cur_epoch
                                     /\ Len(em.series[m].valid) = cur_epoch
                                     /\ Last(em.series[m].train).den = n_train)
    /\ [][/\ (pc # "save_metrics" /\ pc' = "save_metrics")
                => \/ pc = "epoch_loop" /\ cur_epoch = run.n_epochs
                   \/ pc = "early_stopping" /\ es_cnt' >= es_patience
                        /\ Len(ValidSeries) = cur_epoch
          /\ (pc # "called" /\ es_cnt' # es_cnt) => pc = "early_stopping"
          /\ (pc = "early_stopping" /\ pc' = "epoch_loop") => es_cnt' < es_patience
          /\ (pc = "train" /\ pc' \notin {"train", "raised"})
                => (train_pos = NBatches /\ pc' = "checkpoint")
          /\ (pc = "validation" /\ pc' # "raised") => pc' = "early_stopping"]_vars

\* C15 witness: the loop has just been left with epochs of the budget unrun
C15_Witness ==
    /\ pc = "save_metrics"
    /\ cur_epoch < run.n_epochs
    /\ es_cnt = es_patience
    /\ best_epoch_ix = 1

\* C16: the early-stopping step of an epoch, with v the epoch's validation mean
\* of the designated loss: if v < best_loss_valid - es_tolerance it sets
\* best_loss_valid to v, the snapshot to the current parameters, best_epoch_ix
\* to the epoch and the counter to 0; otherwise (a gain equal to the tolerance
\* included) it leaves the three as they are and adds exactly 1 to the counter.
C16_DecisionRule ==
    [][pc = "early_stopping" =>
          IF Last(ValidSeries) < best_loss_valid - es_tolerance
          THEN /\ best_loss_valid' = Last(ValidSeries)
               /\ best_net_wts' = net_wts
               /\ best_epoch_ix' = cur_epoch
               /\ es_cnt' = 0
          ELSE /\ best_loss_valid' = best_loss_valid
               /\ best_net_wts' = best_net_wts
               /\ best_epoch_ix' = best_epoch_ix
               /\ es_cnt' = es_cnt + 1]_vars

\* C16 witness: the second epoch's mean is lower than the first's by exactly
\* the tolerance: nothing of the best epoch has changed and the counter is 1
C16_Witness ==
    /\ pc = "epoch_loop"
    /\ ValidSeries = <<2, 1>>
    /\ es_cnt = 1
    /\ best_loss_valid = 2
    /\ best_epoch_ix = 1
    /\ best_net_wts # net_wts

\* the early-stopping decision of the current epoch has been taken, or no
\* epoch has started
AfterDecision == pc \in {"epoch_loop", "save_metrics", "load_best", "done"}
\* an epoch has started and its early-stopping decision is still to come
InsideEpoch == pc \in {"train", "checkpoint", "validation", "early_stopping"}

\* C22: after every epoch's early-stopping decision es_cnt equals cur_epoch
\* minus best_epoch_ix (best_epoch_ix is 0 while no epoch has improved),
\* es_cnt lies in 0..es_patience, and no epoch starts or runs with
\* es_cnt >= es_patience.
C22_PatienceCounter ==
    /\ AfterDecision => es_cnt = cur_epoch - best_epoch_ix
    /\ pc # "called" => (0 <= es_cnt /\ es_cnt <= es_patience)
    /\ InsideEpoch => es_cnt < es_patience

\* C22 witness: epoch 3 improved and epochs 4 and 5 did not; the decision of
\* epoch 5 left the counter at 2 and the loop goes on
C22_Witness ==
    /\ pc = "epoch_loop"
    /\ cur_epoch = 5
    /\ best_epoch_ix = 3
    /\ es_cnt = 2
    /\ cur_epoch < run.n_epochs

\* C23: best_loss_valid never increases, every update lowers it by more than
\* es_tolerance, and when train() returns every recorded validation mean of
\* the designated loss is at least best_loss_valid minus es_tolerance.
C23_BestLossMonotone ==
    /\ [](pc = "done" =>
            \A j \in 1..Len(ValidSeries) : ValidSeries[j] >= best_loss_valid - es_tolerance)
    /\ [][pc # "called" =>
            /\ best_loss_valid' <= best_loss_valid
            /\ best_loss_valid' # best_loss_valid
                  => best_loss_valid' < best_loss_valid - es_tolerance]_vars

\* C23 witness: train() has returned with a best loss of 2 although a later
\* epoch recorded 1, lower but not by more than the tolerance
C23_Witness ==
    /\ pc = "done"
    /\ best_loss_valid = 2
    /\ Len(ValidSeries) >= 2
    /\ ValidSeries[1] = 2
    /\ ValidSeries[2] = 1

\* no executed epoch recorded a validation mean below the initial
\* best_loss_valid minus the tolerance; so it is when no epoch was executed
NoEpochBelowInitial ==
    \A j \in 1..Len(ValidSeries) : ~(ValidSeries[j] < BEST_LOSS_INIT - es_tolerance)

\* C24: if no executed epoch's validation mean is below the initial
\* best_loss_valid minus the tolerance (n_epochs = 0 included), then when
\* train() returns the network parameters and the "best" checkpoint are the
\* parameters the network had at the call (0 optimizer steps), and
\* best_epoch_ix is 0.
C24_FallbackToInitialParameters ==
    (pc = "done" /\ NoEpochBelowInitial) =>
        /\ net_wts = 0
        /\ BestFiles = {CkptFile("best", 0, 0)}
        /\ best_epoch_ix = 0

\* C24 witness: es_patience epochs were trained and checkpointed, none with a
\* validation mean below the initial best; train() has returned with the
\* parameters of the call, not those of the last epoch
C24_Witness ==
    /\ pc = "done"
    /\ NoEpochBelowInitial
    /\ Len(ValidSeries) = es_patience
    /\ cur_epoch = es_patience
    /\ EpochSnapshots(cur_epoch) = {es_patience}
    /\ net_wts = 0
    /\ BestFiles = {CkptFile("best", 0, 0)}


\* ------------------------------------------------------------------------
\* get_train_valid_indices()
\* ------------------------------------------------------------------------
\* Volumes are named 1..MaxVols (sorted order is numeric order).  A volume's true
\* depth is ix_in.depth[v]; a stored scans_z.pickle maps some set of volumes to
\* their depths.  val_percent is given in percent.
Vols == 1..MaxVols
\* the depths of the volumes: all 1, all 2, or the first deeper than the rest
DepthMaps ==
    {[v \in Vols |-> 1], [v \in Vols |-> 2], [v \in Vols |-> IF v = 1 THEN 2 ELSE 1]}
ValPercents == {15, 50}

SeqsUpTo(S, n) == UNION {[1..k -> S] : k \in 0..n}

NoPickle == [present |-> FALSE, keys |-> {}]
\* no stored mapping, the mapping of exactly the scans S, one of more volumes
Pickles(S) == {NoPickle, [present |-> TRUE, keys |-> S], [present |-> TRUE, keys |-> Vols]}

IxCall(s, l, d, restore, pk, load, p, tr, va) ==
    [scans |-> s, labels |-> l, depth |-> d, restore_prev |-> restore, pickle |-> pk,
     load_existing |-> load, val_percent |-> p, existing_train |-> tr,
     existing_valid |-> va]

\* a fresh split: any pair of directories, any stored mapping
FreshCall(c) ==
    \E s \in SUBSET Vols, l \in SUBSET Vols, d \in DepthMaps, K \in SUBSET Vols,
       restore \in BOOLEAN, present \in BOOLEAN, p \in ValPercents :
        /\ ~present => K = {}
        /\ ~restore => ~present
        /\ c = IxCall(s, l, d, restore, [present |-> present, keys |-> K], FALSE, p,
                      <<>>, <<>>)

\* a split loaded from results/existing_filenames: any two lists of names
LoadCall(c) ==
    \E s \in SUBSET Vols, d \in DepthMaps :
        \E pk \in Pickles(s), tr \in SeqsUpTo(Vols, MaxVols) :
            \E va \in SeqsUpTo(Vols, MaxVols - Len(tr)) :
                c = IxCall(s, s, d, pk.present, pk, TRUE, 15, tr, va)

\* a split to be loaded, in directories that do not match
MismatchedLoadCall(c) ==
    \E s \in SUBSET Vols, l \in SUBSET Vols :
        /\ s # l
        /\ c = IxCall(s, l, [v \in Vols |-> 1], FALSE, NoPickle, TRUE, 15, <<>>, <<>>)

NoError == [kind |-> "none", detail |-> {}]
NoSplitFiles == [written |-> FALSE, train |-> <<>>, valid |-> <<>>]
NoIndices == [returned |-> FALSE, train |-> <<>>, valid |-> <<>>]
EmptyZ == [v \in {} |-> 0]

\* sorted(names): the names in increasing order
RECURSIVE SortedSeq(_)
SortedSeq(S) ==
    IF S = {} THEN <<>>
    ELSE LET m == CHOOSE x \in S : \A y \in S : x <= y
         IN  <<m>> \o SortedSeq(S \ {m})

\* sum(scans_z.values())
RECURSIVE SumZ(_)
SumZ(z) ==
    IF DOMAIN z = {} THEN 0
    ELSE LET v == CHOOSE x \in DOMAIN z : TRUE
         IN  z[v] + SumZ([x \in DOMAIN z \ {v} |-> z[x]])

\* lines 69-70: [(fn, z) for fn in fns for z in range(scans_z[fn])]
RECURSIVE Expand(_, _)
Expand(fns, z) ==
    IF fns = <<>> THEN <<>>
    ELSE [i \in 1..z[Head(fns)] |-> <<Head(fns), i - 1>>] \o Expand(Tail(fns), z)

\* line 38
FilenameDifferenceOneSided(scans, labels) == scans \ labels
FilenameDifference(scans, labels) == (scans \ labels) \cup (labels \ scans)

\* sklearn's train_test_split with a float test_size: ceil(test_size * n) test samples
NTest(n, percent) == (percent * n + 99) \div 100

IxInit ==
    /\ FreshCall(ix_in) \/ LoadCall(ix_in) \/ MismatchedLoadCall(ix_in)
    /\ ix_pc = "called"
    /\ z_pickle = [present |-> ix_in.pickle.present,
                   map |-> [v \in ix_in.pickle.keys |-> ix_in.depth[v]]]
    /\ scans_z = EmptyZ
    /\ fns_train = <<>>
    /\ fns_valid = <<>>
    /\ split_files = NoSplitFiles
    /\ ix_out = NoIndices
    /\ ix_err = NoError

\* lines 34-40: the names differ
IxFilenamesMismatch ==
    /\ ix_pc = "called"
    /\ FilenameDifference(ix_in.scans, ix_in.labels) # {}
    /\ ix_err' = [kind |-> "ValueError",
                  detail |-> FilenameDifference(ix_in.scans, ix_in.labels)]
    /\ ix_pc' = "raised"
    /\ UNCHANGED <<ix_in, z_pickle, scans_z, fns_train, fns_valid, split_files, ix_out>>
    /\ UNCHANGED otherThanIx

\* lines 34-42: the names match
IxFilenamesMatch ==
    /\ ix_pc = "called"
    /\ FilenameDifference(ix_in.scans, ix_in.labels) = {}
    /\ ix_pc' = "names_checked"
    /\ UNCHANGED <<ix_in, z_pickle, scans_z, fns_train, fns_valid, split_files, ix_out,
                   ix_err>>
    /\ UNCHANGED otherThanIx

\* utils.py lines 110-115: the stored mapping is read
IxScansZRestored ==
    /\ ix_pc = "names_checked"
    /\ ix_in.restore_prev
    /\ z_pickle.present
    /\ scans_z' = z_pickle.map
    /\ ix_pc' = "z_known"
    /\ UNCHANGED <<ix_in, z_pickle, fns_train, fns_valid, split_files, ix_out, ix_err>>
    /\ UNCHANGED otherThanIx

\* utils.py lines 111-112: there is no stored mapping
IxScansZMissing ==
    /\ ix_pc = "names_checked"
    /\ ix_in.restore_prev
    /\ ~z_pickle.present
    /\ ix_err' = [kind |-> "ValueError", detail |-> {}]
    /\ ix_pc' = "raised"
    /\ UNCHANGED <<ix_in, z_pickle, scans_z, fns_train, fns_valid, split_files, ix_out>>
    /\ UNCHANGED otherThanIx

\* utils.py lines 117-123: every scan is loaded for its depth, the mapping is stored
IxScansZScanned ==
    /\ ix_pc = "names_checked"
    /\ ~ix_in.restore_prev
    /\ scans_z' = [v \in ix_in.scans |-> ix_in.depth[v]]
    /\ z_pickle' = [present |-> TRUE, map |-> [v \in ix_in.scans |-> ix_in.depth[v]]]
    /\ ix_pc' = "z_known"
    /\ UNCHANGED <<ix_in, fns_train, fns_valid, split_files, ix_out, ix_err>>
    /\ UNCHANGED otherThanIx

\* lines 49-55: the split is read from the existing files
IxLoadSplit ==
    /\ ix_pc = "z_known"
    /\ ix_in.load_existing
    /\ fns_train' = ix_in.existing_train
    /\ fns_valid' = ix_in.existing_valid
    /\ ix_pc' = "split_known"
    /\ UNCHANGED <<ix_in, z_pickle, scans_z, split_files, ix_out, ix_err>>
    /\ UNCHANGED otherThanIx

\* lines 56-66: train_test_split over the sorted scan names; both lists written, sorted
IxComputeSplit ==
    /\ ix_pc = "z_known"
    /\ ~ix_in.load_existing
    /\ LET n == Cardinality(ix_in.scans) IN
       /\ n - NTest(n, ix_in.val_percent) > 0
       /\ \E V \in SUBSET ix_in.scans :
             /\ Cardinality(V) = NTest(n, ix_in.val_percent)
             /\ fns_valid' \in Perms(V)
             /\ fns_train' \in Perms(ix_in.scans \ V)
             /\ split_files' = [written |-> TRUE,
                                train |-> SortedSeq(ix_in.scans \ V),
                                valid |-> SortedSeq(V)]
    /\ ix_pc' = "split_known"
    /\ UNCHANGED <<ix_in, z_pickle, scans_z, ix_out, ix_err>>
    /\ UNCHANGED otherThanIx

\* line 58: train_test_split refuses a split whose train part would be empty
IxSplitRefused ==
    /\ ix_pc = "z_known"
    /\ ~ix_in.load_existing
    /\ LET n == Cardinality(ix_in.scans) IN n - NTest(n, ix_in.val_percent) <= 0
    /\ ix_err' = [kind |-> "ValueError", detail |-> {}]
    /\ ix_pc' = "raised"
    /\ UNCHANGED <<ix_in, z_pickle, scans_z, fns_train, fns_valid, split_files, ix_out>>
    /\ UNCHANGED otherThanIx

SplitNames == Range(fns_train) \cup Range(fns_valid)

\* lines 69-70: a name of the split has no entry in scans_z
IxUnknownVolume ==
    /\ ix_pc = "split_known"
    /\ ~(SplitNames \subseteq DOMAIN scans_z)
    /\ ix_err' = [kind |-> "KeyError", detail |-> SplitNames \ DOMAIN scans_z]
    /\ ix_pc' = "raised"
    /\ UNCHANGED <<ix_in, z_pickle, scans_z, fns_train, fns_valid, split_files, ix_out>>
    /\ UNCHANGED otherThanIx

\* line 74
CountsAgreeUnchecked(n_tr, n_va, n_slices_total) == TRUE
CountsAgree(n_tr, n_va, n_slices_total) == n_tr + n_va = n_slices_total

\* lines 68-75: the indices are built, counted and returned
IxReturn ==
    /\ ix_pc = "split_known"
    /\ SplitNames \subseteq DOMAIN scans_z
    /\ CountsAgree(Len(Expand(fns_train, scans_z)), Len(Expand(fns_valid, scans_z)),
                   SumZ(scans_z))
    /\ ix_out' = [returned |-> TRUE, train |-> Expand(fns_train, scans_z),
                  valid |-> Expand(fns_valid, scans_z)]
    /\ ix_pc' = "returned"
    /\ UNCHANGED <<ix_in, z_pickle, scans_z, fns_train, fns_valid, split_files, ix_err>>
    /\ UNCHANGED otherThanIx

\* line 74: the assertion fails
IxAssertionFails ==
    /\ ix_pc = "split_known"
    /\ SplitNames \subseteq DOMAIN scans_z
    /\ ~CountsAgree(Len(Expand(fns_train, scans_z)), Len(Expand(fns_valid, scans_z)),
                    SumZ(scans_z))
    /\ ix_err' = [kind |-> "AssertionError", detail |-> {}]
    /\ ix_pc' = "raised"
    /\ UNCHANGED <<ix_in, z_pickle, scans_z, fns_train, fns_valid, split_files, ix_out>>
    /\ UNCHANGED otherThanIx

IxNext ==
    \/ IxFilenamesMismatch
    \/ IxFilenamesMatch
    \/ IxScansZRestored
    \/ IxScansZMissing
    \/ IxScansZScanned
    \/ IxLoadSplit
    \/ IxComputeSplit
    \/ IxSplitRefused
    \/ IxUnknownVolume
    \/ IxReturn
    \/ IxAssertionFails

\* ------------------------------------------------------------------------
\* Claims about get_train_valid_indices()
\* ------------------------------------------------------------------------
\* the two totals of line 74, for the split and the mapping at hand
SplitSliceCount == Len(Expand(fns_train, scans_z)) + Len(Expand(fns_valid, scans_z))

RECURSIVE TrueDepthSum(_)
TrueDepthSum(S) ==
    IF S = {} THEN 0
    ELSE LET v == CHOOSE x \in S : TRUE IN ix_in.depth[v] + TrueDepthSum(S \ {v})

C20_Original ==
    ix_out.returned =>
        /\ Range(fns_train) \cap Range(fns_valid) = {}
        /\ Range(fns_train) \cup Range(fns_valid) = ix_in.scans
        /\ Range(ix_out.train) \cap Range(ix_out.valid) = {}

SymmetricDifference(A, B) == {x \in A \cup B : ~(x \in A /\ x \in B)}

NothingOfTheSplit ==
    /\ fns_train = <<>>
    /\ fns_valid = <<>>
    /\ ~split_files.written
    /\ ~ix_out.returned
    /\ scans_z = EmptyZ

\* C5 as stated: scan and label names that differ end the call with a
\* ValidationError reporting their symmetric difference, before any split is
\* computed, loaded or written.
C5_Original ==
    ix_in.scans # ix_in.labels =>
        /\ ix_pc \in {"called", "raised"}
        /\ ix_pc = "raised" =>
              ix_err = [kind |-> "ValidationError",
                        detail |-> SymmetricDifference(ix_in.scans, ix_in.labels)]
        /\ NothingOfTheSplit

\* C5 amended: scan and label names that differ end the call with a ValueError
\* reporting their symmetric difference, before any split is computed, loaded or
\* written.
C5_MismatchRejected ==
    ix_in.scans # ix_in.labels =>
        /\ ix_pc \in {"called", "raised"}
        /\ ix_pc = "raised" =>
              ix_err = [kind |-> "ValueError",
                        detail |-> SymmetricDifference(ix_in.scans, ix_in.labels)]
        /\ NothingOfTheSplit

\* C5 witness: the call was to load an existing split and was refused for a label
\* without a scan
C5_Witness ==
    /\ ix_pc = "raised"
    /\ ix_in.load_existing
    /\ ix_in.labels \ ix_in.scans # {}
    /\ ix_err.detail = SymmetricDifference(ix_in.scans, ix_in.labels)

\* ------------------------------------------------------------------------
\* get_scans_and_labels_batches()
\* ------------------------------------------------------------------------
\* An index stands for a (filename, z) pair.  Two generators are built over the
\* same list object; each step is one next() on one of them, run to its yield.
\* The body of a generator function starts at the first next(): that is when
\* np.random.shuffle(indices) reorders the caller's list.
GenIds == {1, 2}

\* np.load(os.path.join(dp, x[0]))[:, :, x[1]]: the slice stored for an index
ScanSlice(ix) == [array |-> "scan", of |-> ix]
LabelSlice(ix) == [array |-> "label", of |-> ix]

\* batch_size: None, or an integer
BatchSizes == {[is_none |-> TRUE, n |-> 0]} \cup {[is_none |-> FALSE, n |-> k] : k \in 0..MaxLen}

\* line 143
ByBatches == ~gen_in.batch_size.is_none /\ gen_in.batch_size.n > 0

IndexLists == UNION {Perms(S) : S \in SUBSET (1..MaxLen)}

GenInit ==
    /\ gen_in \in [indices : IndexLists, batch_size : BatchSizes]
    /\ g_indices = gen_in.indices
    /\ gens \in [GenIds -> [to_shuffle : BOOLEAN, started : {FALSE}, done : {FALSE},
                            pos : {0}, out : {<<>>}]]

\* lines 133-134: the list as the body finds it, or leaves it, when it (re)starts
ListOnResumeAlwaysShuffled(g) ==
    IF ~gens[g].started THEN Perms(Range(g_indices)) ELSE {g_indices}
ListOnResume(g) ==
    IF ~gens[g].started /\ gens[g].to_shuffle
    THEN Perms(Range(g_indices)) ELSE {g_indices}

\* lines 145-154: the batch that starts after pos items: batch_size items, or the rest
BatchFromOneMore(lst, pos) ==
    LET last == IF pos + gen_in.batch_size.n + 1 < Len(lst)
                THEN pos + gen_in.batch_size.n + 1 ELSE Len(lst)
        ixs == SubSeq(lst, pos + 1, last)
    IN  [scans |-> [i \in 1..Len(ixs) |-> ScanSlice(ixs[i])],
         labels |-> [i \in 1..Len(ixs) |-> LabelSlice(ixs[i])],
         ix |-> ixs]
BatchFrom(lst, pos) ==
    LET last == IF pos + gen_in.batch_size.n < Len(lst)
                THEN pos + gen_in.batch_size.n ELSE Len(lst)
        ixs == SubSeq(lst, pos + 1, last)
    IN  [scans |-> [i \in 1..Len(ixs) |-> ScanSlice(ixs[i])],
         labels |-> [i \in 1..Len(ixs) |-> LabelSlice(ixs[i])],
         ix |-> ixs]

\* lines 157-158
ItemAt(lst, pos) ==
    [scans |-> ScanSlice(lst[pos + 1]), labels |-> LabelSlice(lst[pos + 1]),
     ix |-> lst[pos + 1]]

\* next(): lines 133-154, to the yield of the next batch
GenYieldBatch(g) ==
    /\ ~gens[g].done
    /\ ByBatches
    /\ gens[g].pos < Len(g_indices)
    /\ \E lst \in ListOnResume(g) :
          /\ g_indices' = lst
          /\ gens' = [gens EXCEPT ![g] =
                        [@ EXCEPT !.started = TRUE,
                                  !.out = Append(@, BatchFrom(lst, gens[g].pos)),
                                  !.pos = gens[g].pos + Len(BatchFrom(lst, gens[g].pos).ix)]]
    /\ UNCHANGED gen_in
    /\ UNCHANGED otherThanGen

\* next(): lines 133-141 and 155-158, to the yield of the next single element
GenYieldItem(g) ==
    /\ ~gens[g].done
    /\ ~ByBatches
    /\ gens[g].pos < Len(g_indices)
    /\ \E lst \in ListOnResume(g) :
          /\ g_indices' = lst
          /\ gens' = [gens EXCEPT ![g] =
                        [@ EXCEPT !.started = TRUE,
                                  !.out = Append(@, ItemAt(lst, gens[g].pos)),
                                  !.pos = gens[g].pos + 1]]
    /\ UNCHANGED gen_in
    /\ UNCHANGED otherThanGen

\* next(): the list is used up, the body ends (StopIteration)
GenStop(g) ==
    /\ ~gens[g].done
    /\ gens[g].pos >= Len(g_indices)
    /\ \E lst \in ListOnResume(g) :
          /\ g_indices' = lst
          /\ gens' = [gens EXCEPT ![g] = [@ EXCEPT !.started = TRUE, !.done = TRUE]]
    /\ UNCHANGED gen_in
    /\ UNCHANGED otherThanGen

GenNext ==
    \/ \E g \in GenIds : GenYieldBatch(g)
    \/ \E g \in GenIds : GenYieldItem(g)
    \/ \E g \in GenIds : GenStop(g)

\* no generator has been built
GenIdle ==
    /\ gen_in = [indices |-> <<>>, batch_size |-> [is_none |-> TRUE, n |-> 0]]
    /\ g_indices = <<>>
    /\ gens = [g \in GenIds |-> [to_shuffle |-> FALSE, started |-> FALSE, done |-> TRUE,
                                 pos |-> 0, out |-> <<>>]]

\* ------------------------------------------------------------------------
\* Claims about get_scans_and_labels_batches()
\* ------------------------------------------------------------------------
\* the indices a generator has delivered so far, in delivery order
RECURSIVE Concat(_)
Concat(ss) == IF ss = <<>> THEN <<>> ELSE Head(ss) \o Concat(Tail(ss))

Delivered(g) ==
    IF ByBatches THEN Concat([i \in 1..Len(gens[g].out) |-> gens[g].out[i].ix])
    ELSE [i \in 1..Len(gens[g].out) |-> gens[g].out[i].ix]

IsPrefix(a, b) == Len(a) <= Len(b) /\ a = SubSeq(b, 1, Len(a))

\* C6: two generators built over the same list with to_shuffle = False yield the
\* same batches in the same order (each is at every moment a prefix of the
\* other's, and they are equal once both are exhausted), deliver the indices in
\* the order of the list as passed, all of them by the end, and leave the list
\* as it was.
C6_UnshuffledDeterministic ==
    (\A g \in GenIds : ~gens[g].to_shuffle) =>
        /\ g_indices = gen_in.indices
        /\ IsPrefix(gens[1].out, gens[2].out) \/ IsPrefix(gens[2].out, gens[1].out)
        /\ \A g \in GenIds :
              /\ IsPrefix(Delivered(g), gen_in.indices)
              /\ gens[g].done => Delivered(g) = gen_in.indices
        /\ (gens[1].done /\ gens[2].done) => gens[1].out = gens[2].out

\* C6 witness: both unshuffled passes are complete, over a list that is not in
\* sorted order, in batches of two with a smaller last batch
C6_Witness ==
    /\ \A g \in GenIds : ~gens[g].to_shuffle /\ gens[g].done
    /\ Len(gen_in.indices) = 3
    /\ gen_in.indices[1] > gen_in.indices[2]
    /\ ByBatches
    /\ Len(gens[1].out) = 2
    /\ Len(gens[2].out[2].ix) = 1

\* no generator other than g has reordered the list under g
OnlyShuffler(g) == \A h \in GenIds \ {g} : ~(gens[h].to_shuffle /\ gens[h].started)

\* C17: a generator whose list no other generator has shuffled.  With
\* batch_size S > 0 every batch it has yielded holds as many scans and labels
\* as indices, at least 1 and at most S, and every batch but the last exactly
\* S; once exhausted it has yielded ceil(n / S) batches for a list of n
\* indices, whose index batches concatenated are the list as it now is: the
\* list as passed when to_shuffle is False, a reordering of it otherwise.
\* With batch_size unset (or not positive) it has then yielded n single
\* (slice, label, index) elements, in the order of the list.
C17_BatchGrouping ==
    \A g \in GenIds :
        OnlyShuffler(g) =>
            /\ ByBatches =>
                  /\ \A i \in 1..Len(gens[g].out) :
                        /\ Len(gens[g].out[i].ix) \in 1..gen_in.batch_size.n
                        /\ Len(gens[g].out[i].scans) = Len(gens[g].out[i].ix)
                        /\ Len(gens[g].out[i].labels) = Len(gens[g].out[i].ix)
                        /\ i < Len(gens[g].out)
                              => Len(gens[g].out[i].ix) = gen_in.batch_size.n
                  /\ gens[g].done =>
                        Len(gens[g].out) * gen_in.batch_size.n
                            \in Len(g_indices)..(Len(g_indices) + gen_in.batch_size.n - 1)
            /\ ~ByBatches =>
                  /\ \A i \in 1..Len(gens[g].out) :
                        gens[g].out[i] = [scans |-> ScanSlice(g_indices[i]),
                                          labels |-> LabelSlice(g_indices[i]),
                                          ix |-> g_indices[i]]
                  /\ gens[g].done => Len(gens[g].out) = Len(g_indices)
            /\ gens[g].done =>
                  /\ Delivered(g) = g_indices
                  /\ Len(g_indices) = Len(gen_in.indices)
                  /\ Range(g_indices) = Range(gen_in.indices)
                  /\ ~gens[g].to_shuffle => g_indices = gen_in.indices

\* C17 witness: a shuffled pass over three indices in batches of two is
\* complete: a batch of two and a last batch of one, in the shuffled order
C17_Witness ==
    /\ gens[1].done /\ gens[1].to_shuffle
    /\ ~gens[2].started
    /\ Len(gen_in.indices) = 3
    /\ g_indices # gen_in.indices
    /\ ByBatches /\ gen_in.batch_size.n = 2
    /\ Len(gens[1].out) = 2
    /\ Len(gens[1].out[2].ix) = 1

\* ------------------------------------------------------------------------
\* Claims about train() and its generators
\* ------------------------------------------------------------------------
\* the batches of the current train phase that hold entry x
BatchesWith(x) == {k \in 1..Len(delivered) : x \in Range(delivered[k])}

\* the train phase of the current epoch has delivered its last batch
TrainPhaseOver == pc \in {"checkpoint", "validation", "early_stopping"}

\* C25: in every epoch's train phase the shuffled generator delivers each
\* entry of indices_train in exactly one batch, none dropped and none twice,
\* in the order the caller's list has been left in; after any number of
\* epochs that list is a permutation of its original contents, and
\* indices_valid is never reordered.
C25_ShuffledPassIsPermutation ==
    /\ Len(indices_train) = run.n_src
    /\ Range(indices_train) = 1..run.n_src
    /\ indices_valid = [i \in 1..run.n_valid |-> i]
    /\ TrainPhaseOver =>
          /\ \A x \in Range(indices_train) : Cardinality(BatchesWith(x)) = 1
          /\ Concat(delivered) = indices_train

\* C25 witness: the second epoch's train phase is over; the caller's two
\* entries were delivered in one batch in reversed order, the order the
\* list now has, and the validation list is as it was
C25_Witness ==
    /\ pc = "checkpoint"
    /\ cur_epoch = 2
    /\ indices_train = <<2, 1>>
    /\ delivered = <<<<2, 1>>>>
    /\ indices_valid = <<1>>

\* ------------------------------------------------------------------------
\* NegDiceLoss.forward() and FocalLoss.forward()
\* ------------------------------------------------------------------------
\* A tensor is its shape, its device and its elements in row-major order.  The
\* masks are binary (elements 0 or 1) with one channel.  Sums and quotients
\* are exact: a quotient is kept as [num, den], and with eps = 1 / EpsInv
\*     2 * I / (C + eps)  =  2 * I * EpsInv / (C * EpsInv + 1).
Devices == {"cpu", "cuda"}
Reductions == {"none", "mean", "sum", "max"}

Tensor(shape, device, data) ==
    [is_tensor |-> TRUE, shape |-> shape, device |-> device, data |-> data]

\* something that is not a torch.Tensor, a nested list for instance
NotATensor == [is_tensor |-> FALSE, shape |-> <<>>, device |-> "cpu", data |-> <<>>]

RECURSIVE Prod(_)
Prod(shape) == IF shape = <<>> THEN 1 ELSE Head(shape) * Prod(Tail(shape))

RECURSIVE Sum(_)
Sum(xs) == IF xs = <<>> THEN 0 ELSE Head(xs) + Sum(Tail(xs))

Zeros(shape) == [i \in 1..Prod(shape) |-> 0]

\* x.shape[-2:]
LastTwo(shape) == IF Len(shape) >= 2 THEN SubSeq(shape, Len(shape) - 1, Len(shape)) ELSE shape

\* calls whose arguments differ in rank, height, width or device; the elements
\* play no part in what these calls do and are all zero
ShapeCalls(c) ==
    \E b \in 1..MaxBatch, rank \in {3, 4}, h1 \in 1..MaxSide, w1 \in 1..MaxSide :
    \E h2 \in 1..MaxSide, w2 \in 1..MaxSide, d1 \in Devices, d2 \in Devices :
        LET in_shape == IF rank = 4 THEN <<b, 1, h1, w1>> ELSE <<1, h1, w1>>
        IN  c = [input |-> Tensor(in_shape, d1, Zeros(in_shape)),
                 target |-> Tensor(<<b, 1, h2, w2>>, d2, Zeros(<<b, 1, h2, w2>>))]

\* the calls a caller goes on with: another input, of sides 1 or MaxSide, for a
\* target of the shape and on the device of the one before
FollowUpCalls(c) ==
    \E rank \in {3, 4}, h1 \in {1, MaxSide}, w1 \in {1, MaxSide}, d1 \in Devices :
        LET t_shape == loss_args.target.shape
            in_shape == IF rank = 4 THEN <<t_shape[1], 1, h1, w1>> ELSE <<1, h1, w1>>
        IN  c = [input |-> Tensor(in_shape, d1, Zeros(in_shape)),
                 target |-> Tensor(t_shape, loss_args.target.device, Zeros(t_shape))]

\* calls whose input is well-formed and whose target is a rank-3 tensor of the
\* same height and width, or is not a tensor
TargetCalls(c) ==
    \E b \in 1..MaxBatch, b2 \in 1..MaxBatch, h \in 1..MaxSide, w \in 1..MaxSide :
    \E d \in Devices :
    \E t \in {Tensor(<<b2, h, w>>, d, Zeros(<<b2, h, w>>)), NotATensor} :
        c = [input |-> Tensor(<<b, 1, h, w>>, d, Zeros(<<b, 1, h, w>>)), target |-> t]

\* a call whose input is not a tensor
TypeCalls(c) ==
    \E b \in 1..MaxBatch, d2 \in Devices :
        c = [input |-> NotATensor, target |-> Tensor(<<b, 1, 1, 1>>, d2, Zeros(<<b, 1, 1, 1>>))]

\* predictions for a target: the target itself, its complement, all zeros, all
\* ones, and the target with one element flipped
PredictionsFor(t) ==
    {t, [i \in 1..Len(t) |-> 1 - t[i]], [i \in 1..Len(t) |-> 0], [i \in 1..Len(t) |-> 1]}
        \cup {[t EXCEPT ![p] = 1 - @] : p \in 1..Len(t)}

\* calls with well-formed arguments: same shape, same device
DataCalls(c) ==
    \E b \in 1..MaxBatch, h \in 1..MaxPixels, w \in 1..MaxPixels, d \in Devices :
        /\ h * w <= MaxPixels
        /\ \E t \in [1..(b * h * w) -> {0, 1}] :
           \E x \in PredictionsFor(t) :
              c = [input |-> Tensor(<<b, 1, h, w>>, d, x),
                   target |-> Tensor(<<b, 1, h, w>>, d, t)]

\* the modules a caller may ask for, before __init__ has run
LossObjects ==
    {[class |-> "NegDiceLoss", reduction |-> "none", built |-> FALSE]}
        \cup {[class |-> "FocalLoss", reduction |-> r, built |-> FALSE] : r \in Reductions}

\* outcomes of forward()
Pending == [status |-> "pending", kind |-> "", msg |-> "", value |-> <<>>, scalar |-> FALSE]
Raised(kind, msg) ==
    [status |-> "raised", kind |-> kind, msg |-> msg, value |-> <<>>, scalar |-> FALSE]
Returned(value, scalar) ==
    [status |-> "returned", kind |-> "", msg |-> "", value |-> value, scalar |-> scalar]
Passed == [status |-> "passed", kind |-> "", msg |-> "", value |-> <<>>, scalar |-> FALSE]
NotCalled == [status |-> "new", kind |-> "", msg |-> "", value |-> <<>>, scalar |-> FALSE]

BadCalls == {"rank", "spatial", "device"}
NothingSeen == [k \in BadCalls |-> [seen |-> FALSE, kind |-> "", msg |-> ""]]

LossInit ==
    /\ loss_obj \in LossObjects
    /\ \/ ShapeCalls(loss_args)
       \/ TypeCalls(loss_args)
       \/ DataCalls(loss_args)
       \/ TargetCalls(loss_args)
    /\ loss_res = NotCalled
    /\ loss_seen = NothingSeen

\* NegDiceLoss.__init__ (lines 10-12) and FocalLoss.__init__ (lines 42-52):
\* the arguments are stored as given; the first forward() call is then made
LossConstruct ==
    /\ ~loss_obj.built
    /\ loss_res = NotCalled
    /\ loss_obj' = [loss_obj EXCEPT !.built = TRUE]
    /\ loss_res' = Pending
    /\ UNCHANGED <<loss_args, loss_seen>>
    /\ UNCHANGED otherThanLoss

\* lines 18-30: the argument checks of NegDiceLoss.forward, in their order
NegDiceChecksNoDeviceCheck(input, target) ==
    IF ~input.is_tensor
    THEN Raised("TypeError", "Input type is not a torch.Tensor")
    ELSE IF Len(input.shape) # 4
    THEN Raised("ValueError", "Invalid input shape, we expect BxCxHxW")
    ELSE IF ~target.is_tensor
    THEN Raised("AttributeError", "'list' object has no attribute 'shape'")
    ELSE IF LastTwo(input.shape) # LastTwo(target.shape)
    THEN Raised("ValueError", "input and target shapes must be the same")
    ELSE Passed
NegDiceChecks(input, target) ==
    IF ~input.is_tensor
    THEN Raised("TypeError", "Input type is not a torch.Tensor")
    ELSE IF Len(input.shape) # 4
    THEN Raised("ValueError", "Invalid input shape, we expect BxCxHxW")
    ELSE IF ~target.is_tensor
    THEN Raised("AttributeError", "'list' object has no attribute 'shape'")
    ELSE IF LastTwo(input.shape) # LastTwo(target.shape)
    THEN Raised("ValueError", "input and target shapes must be the same")
    ELSE IF input.device # target.device
    THEN Raised("ValueError", "input and target must be in the same device")
    ELSE Passed

\* lines 58-70: the argument checks of FocalLoss.forward
FocalChecks(input, target) ==
    IF ~input.is_tensor
    THEN Raised("TypeError", "Input type is not a torch.Tensor")
    ELSE IF Len(input.shape) # 4
    THEN Raised("ValueError", "Invalid input shape, we expect BxNxHxW")
    ELSE IF ~target.is_tensor
    THEN Raised("AttributeError", "'list' object has no attribute 'shape'")
    ELSE IF LastTwo(input.shape) # LastTwo(target.shape)
    THEN Raised("ValueError", "input and target shapes must be the same")
    ELSE IF input.device # target.device
    THEN Raised("ValueError", "input and target must be in the same device")
    ELSE Passed

\* the elements of sample b of a BxCxHxW tensor, i.e. what dims = (1, 2, 3) spans
SampleOf(t, b) ==
    LET n == Prod(Tail(t.shape))
    IN  SubSeq(t.data, (b - 1) * n + 1, b * n)

\* the planes of the target that broadcasting pairs with sample b of a Bx1xHxW
\* input: sample b of a target of the same rank, every plane of a rank-3 target
TargetPlanes(target, b) ==
    IF Len(target.shape) = 4 THEN <<SampleOf(target, b)>>
    ELSE [c \in 1..target.shape[1] |->
             SubSeq(target.data, (c - 1) * Prod(Tail(target.shape)) + 1,
                    c * Prod(Tail(target.shape)))]

\* line 33: torch.sum(input * target, dims) for sample b
intersection(input, target, b) ==
    Sum([c \in 1..Len(TargetPlanes(target, b)) |->
            Sum([i \in 1..Prod(Tail(input.shape)) |->
                    SampleOf(input, b)[i] * TargetPlanes(target, b)[c][i]])])

\* line 34: torch.sum(input + target, dims) for sample b
cardinality(input, target, b) ==
    Sum([c \in 1..Len(TargetPlanes(target, b)) |->
            Sum([i \in 1..Prod(Tail(input.shape)) |->
                    SampleOf(input, b)[i] + TargetPlanes(target, b)[c][i]])])

\* line 36: 2. * intersection / (cardinality + self.eps)
DiceScoreWithoutEps(i, c) == [num |-> 2 * i, den |-> c]
DiceScore(i, c) == [num |-> 2 * i * EpsInv, den |-> c * EpsInv + 1]

\* NegDiceLoss.forward: the value returned is minus the mean of the terms of
\* dice_score, which are kept as they are (their common denominator does not
\* fit a machine integer)
NegDiceLoss(input, target) ==
    IF NegDiceChecks(input, target) # Passed THEN NegDiceChecks(input, target)
    ELSE LET dice_score == [b \in 1..input.shape[1] |->
                               DiceScore(intersection(input, target, b),
                                         cardinality(input, target, b))]
         IN  Returned(dice_score, TRUE)

\* lines 72-80 for sample b, for alpha > 0: an element where input and target
\* agree has preds_t = 1 and adds -alpha * 0 * log(1) = 0; one where they
\* differ has preds_t = 0 and adds -alpha * 1 * log(0) = +inf
loss_tmp(input, target, b) ==
    IF \A c \in 1..Len(TargetPlanes(target, b)) : SampleOf(input, b) = TargetPlanes(target, b)[c]
    THEN "0" ELSE "inf"

\* FocalLoss.forward: the reduction is looked at last, lines 82-90
FocalLossUnknownAsNone(input, target, reduction) ==
    IF FocalChecks(input, target) # Passed THEN FocalChecks(input, target)
    ELSE LET per_sample == [b \in 1..input.shape[1] |-> loss_tmp(input, target, b)]
             total == IF \E b \in 1..Len(per_sample) : per_sample[b] = "inf"
                      THEN "inf" ELSE "0"
         IN  IF reduction \in {"mean", "sum"} THEN Returned(<<total>>, TRUE)
             ELSE Returned(per_sample, FALSE)
FocalLoss(input, target, reduction) ==
    IF FocalChecks(input, target) # Passed THEN FocalChecks(input, target)
    ELSE LET per_sample == [b \in 1..input.shape[1] |-> loss_tmp(input, target, b)]
             total == IF \E b \in 1..Len(per_sample) : per_sample[b] = "inf"
                      THEN "inf" ELSE "0"
         IN  IF reduction = "none" THEN Returned(per_sample, FALSE)
             ELSE IF reduction \in {"mean", "sum"} THEN Returned(<<total>>, TRUE)
             ELSE Raised("NotImplementedError", "Invalid reduction mode")

\* which single thing is wrong with the arguments of a call, if exactly one is
BadCallOf(a) ==
    LET wrong == {k \in BadCalls :
                    \/ k = "rank" /\ Len(a.input.shape) = 3
                    \/ k = "spatial" /\ LastTwo(a.input.shape) # LastTwo(a.target.shape)
                    \/ k = "device" /\ a.input.device # a.target.device}
    IN  IF a.input.is_tensor /\ a.target.is_tensor /\ Cardinality(wrong) = 1
        THEN wrong ELSE {}

\* what the caller has seen once the call has ended in res
SeenAfter(res) ==
    [k \in BadCalls |->
        IF k \in BadCallOf(loss_args) /\ res.status = "raised"
        THEN [seen |-> TRUE, kind |-> res.kind, msg |-> res.msg]
        ELSE loss_seen[k]]

NegDiceForward ==
    /\ loss_obj.class = "NegDiceLoss"
    /\ loss_res.status = "pending"
    /\ loss_res' = NegDiceLoss(loss_args.input, loss_args.target)
    /\ loss_seen' = SeenAfter(loss_res')
    /\ UNCHANGED <<loss_obj, loss_args>>
    /\ UNCHANGED otherThanLoss

FocalForward ==
    /\ loss_obj.class = "FocalLoss"
    /\ loss_res.status = "pending"
    /\ loss_res' = FocalLoss(loss_args.input, loss_args.target, loss_obj.reduction)
    /\ loss_seen' = SeenAfter(loss_res')
    /\ UNCHANGED <<loss_obj, loss_args>>
    /\ UNCHANGED otherThanLoss

\* the caller calls the same module again, with other arguments
LossNextCall ==
    /\ loss_res.status \in {"raised", "returned"}
    /\ loss_args.target.is_tensor /\ Len(loss_args.target.shape) = 4
    /\ FollowUpCalls(loss_args')
    /\ loss_res' = Pending
    /\ UNCHANGED <<loss_obj, loss_seen>>
    /\ UNCHANGED otherThanLoss

LossNext ==
    \/ LossConstruct
    \/ NegDiceForward
    \/ FocalForward
    \/ LossNextCall

\* no loss module is in use
LossIdle ==
    /\ loss_obj = [class |-> "NegDiceLoss", reduction |-> "none", built |-> FALSE]
    /\ loss_args = [input |-> NotATensor, target |-> NotATensor]
    /\ loss_res = [status |-> "idle", kind |-> "", msg |-> "", value |-> <<>>, scalar |-> FALSE]
    /\ loss_seen = NothingSeen

\* ------------------------------------------------------------------------
\* Claims about the losses
\* ------------------------------------------------------------------------
RankDefect(a) == a.input.is_tensor /\ Len(a.input.shape) = 3
SpatialDefect(a) ==
    /\ a.input.is_tensor /\ a.target.is_tensor
    /\ LastTwo(a.input.shape) # LastTwo(a.target.shape)
DeviceDefect(a) ==
    a.input.is_tensor /\ a.target.is_tensor /\ a.input.device # a.target.device

LossCallEnded == loss_res.status \in {"raised", "returned"}

\* C7 as stated: a call with a rank-3 input, with differing spatial dimensions
\* or with differing devices is rejected, and the error kinds of the three
\* rejections differ from one another.
C7_Original ==
    /\ (LossCallEnded /\ (RankDefect(loss_args) \/ SpatialDefect(loss_args)
                            \/ DeviceDefect(loss_args)))
          => loss_res.status = "raised"
    /\ \A j \in BadCalls, k \in BadCalls :
          (j # k /\ loss_seen[j].seen /\ loss_seen[k].seen)
              => loss_seen[j].kind # loss_seen[k].kind

\* C7: a call of NegDiceLoss.forward or FocalLoss.forward with a rank-3 input,
\* with differing spatial dimensions or with differing devices is rejected with
\* ValueError, a kind other than the TypeError of a non-tensor input; the three
\* rejections all have the kind ValueError and differ from one another in
\* their message only.
C7_RejectedAsValueError ==
    /\ (LossCallEnded /\ (RankDefect(loss_args) \/ SpatialDefect(loss_args)
                            \/ DeviceDefect(loss_args)))
          => (loss_res.status = "raised" /\ loss_res.kind = "ValueError")
    /\ (LossCallEnded /\ ~loss_args.input.is_tensor)
          => (loss_res.status = "raised" /\ loss_res.kind = "TypeError")
    /\ \A j \in BadCalls : loss_seen[j].seen => loss_seen[j].kind = "ValueError"
    /\ \A j \in BadCalls, k \in BadCalls :
          (j # k /\ loss_seen[j].seen /\ loss_seen[k].seen)
              => loss_seen[j].msg # loss_seen[k].msg

\* C7 witness: the caller of a FocalLoss has seen each of the three rejections
C7_Witness ==
    /\ loss_obj.class = "FocalLoss"
    /\ \A k \in BadCalls : loss_seen[k].seen
    /\ loss_res.status = "raised"
    /\ DeviceDefect(loss_args) /\ ~RankDefect(loss_args) /\ ~SpatialDefect(loss_args)

\* something is wrong with an argument: its type, its rank, or the two do not
\* agree in height and width or in device
WrongType == ~loss_args.input.is_tensor \/ ~loss_args.target.is_tensor
WrongShapeOrDevice ==
    \/ loss_args.input.is_tensor /\ Len(loss_args.input.shape) # 4
    \/ loss_args.target.is_tensor /\ Len(loss_args.target.shape) # 4
    \/ SpatialDefect(loss_args)
    \/ DeviceDefect(loss_args)

\* C18 as stated: a call of NegDiceLoss.forward or FocalLoss.forward in which
\* the prediction or the target is not a tensor ends in TypeError, and one in
\* which either is not of rank 4, or the two differ in their last two
\* dimensions or in device, ends in TypeError or ValueError; neither computes
\* a loss.
C18_Original ==
    LossCallEnded =>
        /\ WrongType => (loss_res.status = "raised" /\ loss_res.kind = "TypeError")
        /\ WrongShapeOrDevice
              => (loss_res.status = "raised" /\ loss_res.kind \in {"TypeError", "ValueError"})

UnknownReduction ==
    loss_obj.class = "FocalLoss" /\ loss_obj.reduction \notin {"none", "mean", "sum"}

ArgumentsAccepted ==
    /\ loss_args.input.is_tensor /\ loss_args.target.is_tensor
    /\ Len(loss_args.input.shape) = 4
    /\ ~SpatialDefect(loss_args)
    /\ ~DeviceDefect(loss_args)

Foreground(b) == Sum(SampleOf(loss_args.target, b))

\* the prediction equals the target, and every sample has a foreground element
PerfectPrediction ==
    /\ loss_args.input.is_tensor /\ loss_args.target.is_tensor
    /\ loss_args.input.shape = loss_args.target.shape
    /\ loss_args.input.device = loss_args.target.device
    /\ loss_args.input.data = loss_args.target.data
    /\ \A b \in 1..loss_args.target.shape[1] : Foreground(b) >= 1

\* C10 as stated: NegDiceLoss.forward of a perfect prediction has a per-sample
\* Dice score of exactly 1, and so returns exactly -1.
C10_Original ==
    (loss_obj.class = "NegDiceLoss" /\ loss_res.status = "returned" /\ PerfectPrediction)
        => \A b \in 1..Len(loss_res.value) : loss_res.value[b].num = loss_res.value[b].den

\* C10: NegDiceLoss.forward of a perfect prediction has, for a sample with n
\* foreground elements, the Dice score 2n / (2n + eps) = 1 - 1 / (2n * EpsInv + 1):
\* below 1 and less than eps away from it, so that the value returned is above
\* -1 and less than eps away from it.
C10_PerfectScoreJustBelowOne ==
    (loss_obj.class = "NegDiceLoss" /\ loss_res.status = "returned" /\ PerfectPrediction)
        => /\ loss_res.scalar
           /\ Len(loss_res.value) = loss_args.input.shape[1]
           /\ \A b \in 1..Len(loss_res.value) :
                 /\ loss_res.value[b].den = 2 * Foreground(b) * EpsInv + 1
                 /\ loss_res.value[b].den - loss_res.value[b].num = 1
                 /\ loss_res.value[b].den > EpsInv

\* C10 witness: a perfect prediction for a batch of two samples, one with a
\* single foreground element and one with two, has been scored
C10_Witness ==
    /\ loss_obj.class = "NegDiceLoss"
    /\ loss_res.status = "returned"
    /\ PerfectPrediction
    /\ loss_args.target.shape[1] = 2
    /\ Foreground(1) = 1
    /\ Foreground(2) = 2

\* ------------------------------------------------------------------------
\* hausdorff_distance() and average_hausdorff_distance()
\* ------------------------------------------------------------------------
\* A mask is an HxW array of 0s and 1s.  Distances are in units of 0.01,
\* rounded down; a mean is kept as [num, den]; inf is a value of its own.
Inf == [inf |-> TRUE, num |-> 0, den |-> 1]
Number(n, d) == [inf |-> FALSE, num |-> n, den |-> d]

MaxAhds == {Inf, Number(0, 1), Number(1000, 1)}

HdCalls(c) ==
    \E h \in 1..2, w \in 1..MaxWidth :
    \E v1 \in [(1..h) \X (1..w) -> {0, 1}], v2 \in [(1..h) \X (1..w) -> {0, 1}] :
    \E m \in MaxAhds :
        c = [input_bin |-> v1, target |-> v2, max_ahd |-> m]

HdInit ==
    /\ hd_fn \in {"hausdorff_distance", "average_hausdorff_distance"}
    /\ HdCalls(hd_args)
    /\ hd_res = [status |-> "pending", value |-> Inf]

\* np.argwhere(v == 1): the coordinates of the elements equal to 1
argwhere1(v) == {p \in DOMAIN v : v[p] = 1}

\* one entry of pairwise_distances(p1, p2, metric='euclidean')
Euclidean(p, q) ==
    LET dy == IF p[1] >= q[1] THEN p[1] - q[1] ELSE q[1] - p[1]
        dx == IF p[2] >= q[2] THEN p[2] - q[2] ELSE q[2] - p[2]
        sq == 10000 * (dy * dy + dx * dx)
    IN  CHOOSE r \in 0..(100 * (dy + dx)) : r * r <= sq /\ (r + 1) * (r + 1) > sq

SetMin(S) == CHOOSE x \in S : \A y \in S : x <= y
SetMax(S) == CHOOSE x \in S : \A y \in S : x >= y

\* np.min(d, axis=...) at one point: the distance from a to the nearest of B
Nearest(a, B) == SetMin({Euclidean(a, b) : b \in B})

\* the sum over the points a of A of np.min(d, axis=...) at a
RECURSIVE SumNearest(_, _)
SumNearest(A, B) ==
    IF A = {} THEN 0
    ELSE LET a == CHOOSE x \in A : TRUE
         IN  Nearest(a, B) + SumNearest(A \ {a}, B)

\* lines 93-117
hausdorff_distance_zero_when_empty(input_bin, target, max_ahd) ==
    LET p1 == argwhere1(input_bin)
        p2 == argwhere1(target)
    IN  IF p1 = {} \/ p2 = {} THEN Number(0, 1)
        ELSE LET hd1 == SetMax({Nearest(b, p1) : b \in p2})
                 hd2 == SetMax({Nearest(a, p2) : a \in p1})
             IN  Number(IF hd1 >= hd2 THEN hd1 ELSE hd2, 1)
hausdorff_distance(input_bin, target, max_ahd) ==
    LET p1 == argwhere1(input_bin)
        p2 == argwhere1(target)
    IN  IF p1 = {} \/ p2 = {} THEN max_ahd
        ELSE LET hd1 == SetMax({Nearest(b, p1) : b \in p2})
                 hd2 == SetMax({Nearest(a, p2) : a \in p1})
             IN  Number(IF hd1 >= hd2 THEN hd1 ELSE hd2, 1)

\* lines 120-144
average_hausdorff_distance(input_bin, target, max_ahd) ==
    LET p1 == argwhere1(input_bin)
        p2 == argwhere1(target)
    IN  IF p1 = {} \/ p2 = {} THEN max_ahd
        ELSE LET hd1 == Number(SumNearest(p2, p1), Cardinality(p2))
                 hd2 == Number(SumNearest(p1, p2), Cardinality(p1))
             IN  IF hd1.num * hd2.den >= hd2.num * hd1.den THEN hd1 ELSE hd2

HausdorffDistance ==
    /\ hd_fn = "hausdorff_distance"
    /\ hd_res.status = "pending"
    /\ hd_res' = [status |-> "returned",
                  value |-> hausdorff_distance(hd_args.input_bin, hd_args.target,
                                               hd_args.max_ahd)]
    /\ UNCHANGED <<hd_fn, hd_args>>
    /\ UNCHANGED otherThanHd

AverageHausdorffDistance ==
    /\ hd_fn = "average_hausdorff_distance"
    /\ hd_res.status = "pending"
    /\ hd_res' = [status |-> "returned",
                  value |-> average_hausdorff_distance(hd_args.input_bin, hd_args.target,
                                                       hd_args.max_ahd)]
    /\ UNCHANGED <<hd_fn, hd_args>>
    /\ UNCHANGED otherThanHd

HdNext ==
    \/ HausdorffDistance
    \/ AverageHausdorffDistance

\* neither function is being called
HdIdle ==
    /\ hd_fn = "hausdorff_distance"
    /\ hd_args = [input_bin |-> <<>>, target |-> <<>>, max_ahd |-> Inf]
    /\ hd_res = [status |-> "idle", value |-> Inf]

\* ------------------------------------------------------------------------
\* Claims about the Hausdorff distances
\* ------------------------------------------------------------------------
PredictionPixels == {p \in DOMAIN hd_args.input_bin : hd_args.input_bin[p] = 1}
TargetPixels == {p \in DOMAIN hd_args.target : hd_args.target[p] = 1}

\* C8: hausdorff_distance and average_hausdorff_distance return max_ahd, +inf
\* unless configured otherwise, when the prediction or the target has no
\* foreground pixel, and return 0 when both masks have the same single
\* foreground pixel.
C8_HausdorffEdgeCases ==
    /\ (hd_res.status = "returned" /\ (PredictionPixels = {} \/ TargetPixels = {}))
          => hd_res.value = hd_args.max_ahd
    /\ (hd_res.status = "returned" /\ PredictionPixels = TargetPixels
            /\ Cardinality(TargetPixels) = 1)
          => (~hd_res.value.inf /\ hd_res.value.num = 0)

\* C8 witness: average_hausdorff_distance has returned +inf for an empty
\* prediction and a target with foreground
C8_Witness ==
    /\ hd_fn = "average_hausdorff_distance"
    /\ hd_res.status = "returned"
    /\ PredictionPixels = {}
    /\ TargetPixels # {}
    /\ hd_args.max_ahd = Inf
    /\ hd_res.value = Inf

\* ------------------------------------------------------------------------
\* evaluate_net()
\* ------------------------------------------------------------------------
\* The slice indices data_gen delivers: any order of any of the slices.
SliceLists == UNION {Perms(S) : S \in SUBSET (1..MaxItems)}

\* The value a metric function returns for one slice.
MetricValues == {0, 1}

\* The parameters the network is called with.
NetStates == {0, 1}

EvInit ==
    /\ \E items \in SliceLists, cnt \in 0..(MaxItems + 1), net \in NetStates :
          ev_in = [items |-> items, total_samples_cnt |-> cnt, net |-> net]
    /\ ev_pc = "called"
    /\ ev_pos = 0
    /\ metrics_res = [m \in {} |-> 0]
    /\ ev_net_wts = ev_in.net
    /\ ev_err = "none"

\* net.eval(), and the empty result of every metric
EvalBegin ==
    /\ ev_pc = "called"
    /\ metrics_res' = [m \in Metrics |-> [list |-> <<>>, mean |-> [num |-> 0, den |-> 1]]]
    /\ ev_pc' = "loop"
    /\ UNCHANGED <<ev_in, ev_pos, ev_net_wts, ev_err>>
    /\ UNCHANGED otherThanEv

\* the result after one more value of metric m for slice slice_ix
Accumulated(res, slice_ix, m_value) ==
    [list |-> Append(res.list, <<slice_ix, m_value>>),
     mean |-> [res.mean EXCEPT !.num = @ + m_value]]

\* one element of data_gen, under torch.no_grad(): every metric is computed,
\* added to its 'mean' and appended to its 'list'
EvalItem ==
    /\ ev_pc = "loop"
    /\ ev_pos < Len(ev_in.items)
    /\ \E m_value \in [Metrics -> MetricValues] :
          metrics_res' = [m \in Metrics |->
                             Accumulated(metrics_res[m], ev_in.items[ev_pos + 1], m_value[m])]
    /\ ev_pos' = ev_pos + 1
    /\ UNCHANGED <<ev_in, ev_pc, ev_net_wts, ev_err>>
    /\ UNCHANGED otherThanEv

\* m_dict['mean'] /= total_samples_cnt
Divided(res, total_samples_cnt) ==
    [res EXCEPT !.mean = [num |-> res.mean.num, den |-> res.mean.den * total_samples_cnt]]

\* data_gen is exhausted: the sums are divided and the results returned
EvalReturn ==
    /\ ev_pc = "loop"
    /\ ev_pos = Len(ev_in.items)
    /\ ev_in.total_samples_cnt # 0
    /\ metrics_res' = [m \in Metrics |-> Divided(metrics_res[m], ev_in.total_samples_cnt)]
    /\ ev_pc' = "returned"
    /\ UNCHANGED <<ev_in, ev_pos, ev_net_wts, ev_err>>
    /\ UNCHANGED otherThanEv

\* data_gen is exhausted and total_samples_cnt is 0: the division raises
EvalZeroDivision ==
    /\ ev_pc = "loop"
    /\ ev_pos = Len(ev_in.items)
    /\ ev_in.total_samples_cnt = 0
    /\ ev_pc' = "raised"
    /\ ev_err' = "ZeroDivisionError"
    /\ UNCHANGED <<ev_in, ev_pos, metrics_res, ev_net_wts>>
    /\ UNCHANGED otherThanEv

EvNext ==
    \/ EvalBegin
    \/ EvalItem
    \/ EvalReturn
    \/ EvalZeroDivision

\* evaluate_net() is not running
EvIdle ==
    /\ ev_in = [items |-> <<>>, total_samples_cnt |-> 0, net |-> 0]
    /\ ev_pc = "idle"
    /\ ev_pos = 0
    /\ metrics_res = [m \in {} |-> 0]
    /\ ev_net_wts = 0
    /\ ev_err = "none"

\* ------------------------------------------------------------------------
\* Claims about evaluate_net()
\* ------------------------------------------------------------------------
\* the slice indices and the values of a 'list', in order
SliceIxs(list) == [i \in 1..Len(list) |-> list[i][1]]
ValuesOf(list) == [i \in 1..Len(list) |-> list[i][2]]

\* every metric has one entry per delivered element, in delivery order
OneEntryPerElement ==
    \A m \in Metrics : SliceIxs(metrics_res[m].list) = ev_in.items

\* C21 as stated: evaluate_net returns, for every metric, one (slice index,
\* value) entry per element data_gen delivered, in delivery order, and a
\* 'mean' equal to the arithmetic mean of the values of that list, and leaves
\* the network parameters as they were.
C21_Original ==
    ev_pc = "returned" =>
        /\ OneEntryPerElement
        /\ \A m \in Metrics :
              Len(metrics_res[m].list) > 0 =>
                  metrics_res[m].mean.num * Len(metrics_res[m].list)
                      = Sum(ValuesOf(metrics_res[m].list)) * metrics_res[m].mean.den
        /\ ev_net_wts = ev_in.net

\* get_train_valid_indices() is not running
IxIdle ==
    /\ ix_in = [scans |-> {}, labels |-> {}, depth |-> [v \in Vols |-> 1],
                restore_prev |-> FALSE, pickle |-> NoPickle, load_existing |-> FALSE,
                val_percent |-> 15, existing_train |-> <<>>, existing_valid |-> <<>>]
    /\ ix_pc = "idle"
    /\ z_pickle = [present |-> FALSE, map |-> EmptyZ]
    /\ scans_z = EmptyZ
    /\ fns_train = <<>>
    /\ fns_valid = <<>>
    /\ split_files = NoSplitFiles
    /\ ix_out = NoIndices
    /\ ix_err = NoError

\* train() is not running
TrainIdle ==
    /\ last_out = NoOutput
    /\ pbar_n = 0
    /\ run = [n_epochs |-> 0, valid_vals |-> {0}, train_vals |-> {0}, other_vals |-> {0},
              out_of_range |-> FALSE, n_src |-> 0, source_slices_per_batch |-> 1,
              aug_cnt |-> 0, n_valid |-> 0]
    /\ pc = "idle"
    /\ cur_epoch = 0
    /\ es_cnt = 0
    /\ best_loss_valid = 0
    /\ best_epoch_ix = 0
    /\ best_net_wts = 0
    /\ net_wts = 0
    /\ em = [series |-> [m \in Metrics |-> [train |-> <<>>, valid |-> <<>>]],
             loss_name |-> ""]
    /\ indices_train = <<>>
    /\ train_pos = 0
    /\ delivered = <<>>
    /\ indices_valid = <<>>
    /\ ckpt_dir = [exists |-> FALSE, files |-> {}]
    /\ em_dumps = <<>>
    /\ err = "none"


Init == TrainInit /\ IxIdle /\ GenIdle /\ LossIdle /\ HdIdle /\ EvIdle

Next ==
    \/ Setup
    \/ TrainBegin
    \/ LoopExhausted
    \/ TrainBatchSkipped
    \/ TrainBatchStep
    \/ TrainEnd
    \/ TrainEndZeroDivision
    \/ Checkpoint
    \/ Validate
    \/ ValidateZeroDivision
    \/ EarlyStopping
    \/ SaveMetrics
    \/ LoadBest

Spec == Init /\ [][Next]_vars

IxSpecInit == IxInit /\ TrainIdle /\ GenIdle /\ LossIdle /\ HdIdle /\ EvIdle

SpecIdx == IxSpecInit /\ [][IxNext]_vars

GenSpecInit == GenInit /\ TrainIdle /\ IxIdle /\ LossIdle /\ HdIdle /\ EvIdle

LossSpecInit == LossInit /\ TrainIdle /\ IxIdle /\ GenIdle /\ HdIdle /\ EvIdle

SpecLoss == LossSpecInit /\ [][LossNext]_vars

HdSpecInit == HdInit /\ TrainIdle /\ IxIdle /\ GenIdle /\ LossIdle /\ EvIdle

SpecHD == HdSpecInit /\ [][HdNext]_vars

SpecGen == GenSpecInit /\ [][GenNext]_vars

EvSpecInit == EvInit /\ TrainIdle /\ IxIdle /\ GenIdle /\ LossIdle /\ HdIdle

SpecEval == EvSpecInit /\ [][EvNext]_vars

====
